---------------------------- MODULE Spec2Model ----------------------------
(***************************************************************************)
(* A model of the data validation framework: the validator registry, the   *)
(* five built-in validators, the configuration loader and the validation   *)
(* pipeline.                                                               *)
(*                                                                         *)
(* Python values are records [k, n, s]: k is the kind of the value, n its  *)
(* numeric payload and s its text payload.  An int carries its value in n; *)
(* a float carries its value in tenths in n (so 0.5 is n = 5), which keeps *)
(* the order of the numbers the model uses; a bool carries 0 or 1.         *)
(* Optional values (None or a value of another shape) are sequences of     *)
(* length at most one.                                                     *)
(***************************************************************************)
EXTENDS Integers, Sequences, FiniteSets, TLC

VARIABLES
    registry,     \* ValidatorRegistry._validators : name -> class
    pipeline,     \* the ValidationPipeline instance: <<>> or <<[specs]>>
    last_result,  \* ValidationPipeline.last_result: <<>> (None) or <<PipelineResult>>
    loaded,       \* the PipelineConfig returned by the last successful load_config
    call,         \* the operation performed by the last step
    arg,          \* its argument
    ret,          \* its outcome: [kind |-> "ok" or an exception class, val |-> ...]
    key_order     \* the keys of ValidatorRegistry._validators in insertion order

vars == <<registry, pipeline, last_result, loaded, call, arg, ret, key_order>>

-----------------------------------------------------------------------------
(* Bounds of the model *)

\* longest column of a table
MaxRows == 2
\* longest PipelineConfig.validations / configuration document
MaxEntries == 2

-----------------------------------------------------------------------------
(* Python values *)

NullV == [k |-> "null", n |-> 0, s |-> ""]
IntV(i) == [k |-> "int", n |-> i, s |-> ""]
FloatV(t) == [k |-> "float", n |-> t, s |-> ""]
StrV(x) == [k |-> "str", n |-> 0, s |-> x]
BoolV(b) == [k |-> "bool", n |-> IF b THEN 1 ELSE 0, s |-> ""]
CallableV(f) == [k |-> "callable", n |-> 0, s |-> f]

\* pd.isna(val): None and NaN
IsNa(v) == v.k = "null"

\* bool(val) of a configuration value
Truthy(v) ==
    CASE v.k = "null" -> FALSE
      [] v.k \in {"int", "float", "bool"} -> v.n # 0
      [] v.k = "str" -> v.s # ""
      [] OTHER -> TRUE

\* the value of a number in tenths, as the comparison operators see it
Num(v) == IF v.k = "float" THEN v.n ELSE v.n * 10

\* dict.get(key) and dict.get(key, default) on a configuration
Get(config, key) == IF key \in DOMAIN config THEN config[key] ELSE NullV
GetOr(config, key, default) == IF key \in DOMAIN config THEN config[key] ELSE default

-----------------------------------------------------------------------------
(* Text: the characters of the strings the model uses *)

Chars(s) ==
    CASE s = "" -> <<>>
      [] s = "5" -> <<"5">>
      [] s = "1.5" -> <<"1", ".", "5">>
      [] s = "abc" -> <<"a", "b", "c">>
      [] s = "Xyz" -> <<"X", "y", "z">>
      [] s = "ABC" -> <<"A", "B", "C">>
      [] s = "ab1" -> <<"a", "b", "1">>
      [] s = "true" -> <<"t", "r", "u", "e">>
      [] s = "int" -> <<"i", "n", "t">>
      [] s = "INT" -> <<"I", "N", "T">>
      [] s = "float" -> <<"f", "l", "o", "a", "t">>
      [] s = "string" -> <<"s", "t", "r", "i", "n", "g">>
      [] s = "datetime" -> <<"d", "a", "t", "e", "t", "i", "m", "e">>
      [] s = "bool" -> <<"b", "o", "o", "l">>
      [] s = "uuid" -> <<"u", "u", "i", "d">>
      [] s = "^[a-z]+$" -> <<"^", "[", "a", "-", "z", "]", "+", "$">>
      [] s = "[a-z]+" -> <<"[", "a", "-", "z", "]", "+">>
      [] s = "[" -> <<"[">>
      [] s = "2024-01-01" -> <<"2", "0", "2", "4", "-", "0", "1", "-", "0", "1">>
      [] OTHER -> <<"?">>

DigitChars == <<"0", "1", "2", "3", "4", "5", "6", "7", "8", "9">>
IsDigit(c) == \E d \in 1..10 : DigitChars[d] = c
DigitVal(c) == (CHOOSE d \in 1..10 : DigitChars[d] = c) - 1

LowerChars == <<"a", "b", "c", "d", "e", "f", "g", "i", "l", "m", "n", "o", "r", "s", "t", "u", "x", "y", "z">>
UpperChars == <<"A", "B", "C", "D", "E", "F", "G", "I", "L", "M", "N", "O", "R", "S", "T", "U", "X", "Y", "Z">>
IsLower(c) == \E d \in DOMAIN LowerChars : LowerChars[d] = c
IsUpper(c) == \E d \in DOMAIN UpperChars : UpperChars[d] = c
LowerChar(c) == IF IsUpper(c) THEN LowerChars[CHOOSE d \in DOMAIN UpperChars : UpperChars[d] = c] ELSE c
\* str.lower()
Lower(cs) == [i \in DOMAIN cs |-> LowerChar(cs[i])]

RECURSIVE DigitsOf(_)
\* the decimal digits of a natural number
DigitsOf(n) == IF n < 10 THEN <<DigitChars[n + 1]>> ELSE DigitsOf(n \div 10) \o <<DigitChars[(n % 10) + 1]>>

Abs(n) == IF n < 0 THEN -n ELSE n
Sign(n) == IF n < 0 THEN <<"-">> ELSE <<>>

\* str(val)
Stringify(v) ==
    CASE v.k = "int" -> Sign(v.n) \o DigitsOf(Abs(v.n))
      [] v.k = "float" -> Sign(v.n) \o DigitsOf(Abs(v.n) \div 10) \o <<".">> \o DigitsOf(Abs(v.n) % 10)
      [] v.k = "bool" -> IF v.n = 1 THEN <<"T", "r", "u", "e">> ELSE <<"F", "a", "l", "s", "e">>
      [] v.k = "null" -> <<"N", "o", "n", "e">>
      [] v.k = "str" -> Chars(v.s)
      [] OTHER -> <<"<", "f", ">">>

AllDigits(cs) == Len(cs) > 0 /\ \A i \in DOMAIN cs : IsDigit(cs[i])
RECURSIVE DigitsVal(_)
DigitsVal(cs) == IF cs = <<>> THEN 0 ELSE DigitsVal(SubSeq(cs, 1, Len(cs) - 1)) * 10 + DigitVal(cs[Len(cs)])

\* float(text): <<>> when the text is no number, else <<tenths>>
ParseFloat(cs) ==
    LET neg == Len(cs) > 0 /\ cs[1] = "-"
        body == IF neg THEN Tail(cs) ELSE cs
        dots == {i \in DOMAIN body : body[i] = "."}
        sgn == IF neg THEN -1 ELSE 1
    IN  IF dots = {}
        THEN IF AllDigits(body) THEN <<sgn * DigitsVal(body) * 10>> ELSE <<>>
        ELSE LET d == CHOOSE i \in dots : TRUE
                 ip == SubSeq(body, 1, d - 1)
                 fp == SubSeq(body, d + 1, Len(body))
             IN  IF Cardinality(dots) = 1 /\ AllDigits(ip) /\ Len(fp) = 1 /\ AllDigits(fp)
                 THEN <<sgn * (DigitsVal(ip) * 10 + DigitsVal(fp))>>
                 ELSE <<>>

\* float(val) of a non-null cell value: <<>> when it raises, else <<tenths>>
ToFloat(v) ==
    CASE v.k \in {"int", "bool"} -> <<v.n * 10>>
      [] v.k = "float" -> <<v.n>>
      [] v.k = "str" -> ParseFloat(Chars(v.s))
      [] OTHER -> <<>>

-----------------------------------------------------------------------------
(* Results *)

\* The outcome of an operation: a returned value, or a raised exception of
\* class kind whose message cites some of: a parameter name, a validator
\* name, an entry index, a column ("" and -1 stand for "not cited").
Ok(v) == [kind |-> "ok", val |-> <<v>>, msg |-> <<>>]
Raise(e) == [kind |-> e, val |-> <<>>, msg |-> <<>>]
RaiseMsg(e, text, param, validator, idx, column) ==
    [kind |-> e, val |-> <<>>,
     msg |-> <<[text |-> text, param |-> param, validator |-> validator,
                idx |-> idx, column |-> column]>>]

Reason(t, a) == [t |-> t, a |-> a]
Fail(value, reason) == <<[value |-> value, reason |-> reason]>>
Pass == <<>>

\* The failure details with the position of the row in the place of its
\* index label
CollectPositions(index, checks) ==
    LET F[i \in 0..Len(checks)] ==
            IF i = 0 THEN <<>>
            ELSE F[i - 1] \o [j \in 1..Len(checks[i]) |->
                                [row |-> i - 1,
                                 value |-> checks[i][j].value,
                                 reason |-> checks[i][j].reason]]
    IN  F[Len(checks)]

\* The failure details of a column: checks[i] is Pass or Fail(..) for row i;
\* the rows are traversed in the order of series.items().
Collect(index, checks) ==
    LET F[i \in 0..Len(checks)] ==
            IF i = 0 THEN <<>>
            ELSE F[i - 1] \o [j \in 1..Len(checks[i]) |->
                                [row |-> index[i],
                                 value |-> checks[i][j].value,
                                 reason |-> checks[i][j].reason]]
    IN  F[Len(checks)]

\* MakeResult counting only the rows that passed as the records examined
MakeResultTotalSlip(name, total, failed_details, what) ==
    [validator_name |-> name,
     passed |-> Len(failed_details) = 0,
     total_records |-> total - Len(failed_details),
     failed_records |-> Len(failed_details),
     error_details |-> failed_details,
     message |-> [all |-> Len(failed_details) = 0, failed |-> Len(failed_details),
                  total |-> total, what |-> what],
     duration_seconds |-> <<>>]

\* The tail of every validate(): counts, passed flag, message, ValidationResult
MakeResult(name, total, failed_details, what) ==
    LET failed_count == Len(failed_details)
        passed == failed_count = 0
    IN  [validator_name |-> name,
         passed |-> passed,
         total_records |-> total,
         failed_records |-> failed_count,
         error_details |-> failed_details,
         message |-> IF passed
                     THEN [all |-> TRUE, failed |-> 0, total |-> total, what |-> "records passed"]
                     ELSE [all |-> FALSE, failed |-> failed_count, total |-> total, what |-> what],
         duration_seconds |-> <<>>]

\* len(df): every column of a DataFrame has the length of its index
LenDf(df) == Len(df.index)

-----------------------------------------------------------------------------
(* RangeValidator *)

\* RangeRow with the exclusive comparisons written as the inclusive ones
RangeRowExclusiveSlip(config, val) ==
    LET min_value == Get(config, "min_value")
        max_value == Get(config, "max_value")
        f == ToFloat(val)
    IN  IF IsNa(val) THEN Fail(val, Reason("Null value", NullV))
        ELSE IF f = <<>> THEN Fail(val, Reason("Value is not numeric", NullV))
        ELSE IF min_value # NullV /\ f[1] < Num(min_value)
             THEN Fail(val, Reason("Value below minimum", min_value))
        ELSE IF max_value # NullV /\ f[1] > Num(max_value)
             THEN Fail(val, Reason("Value above maximum", max_value))
        ELSE Pass

RangeRow(config, val) ==
    LET min_value == Get(config, "min_value")
        max_value == Get(config, "max_value")
        inclusive == Truthy(GetOr(config, "inclusive", BoolV(TRUE)))
        f == ToFloat(val)
        numeric_val == f[1]
    IN  IF IsNa(val) THEN Fail(val, Reason("Null value", NullV))
        ELSE IF f = <<>> THEN Fail(val, Reason("Value is not numeric", NullV))
        ELSE IF min_value # NullV /\ inclusive /\ numeric_val < Num(min_value)
             THEN Fail(val, Reason("Value below minimum", min_value))
        ELSE IF min_value # NullV /\ ~inclusive /\ numeric_val <= Num(min_value)
             THEN Fail(val, Reason("Value not greater than minimum", min_value))
        ELSE IF max_value # NullV /\ inclusive /\ numeric_val > Num(max_value)
             THEN Fail(val, Reason("Value above maximum", max_value))
        ELSE IF max_value # NullV /\ ~inclusive /\ numeric_val >= Num(max_value)
             THEN Fail(val, Reason("Value not less than maximum", max_value))
        ELSE Pass

RangeValidate(config, df, column) ==
    LET series == df.cols[column]
    IN  Ok(MakeResult("range", LenDf(df),
                      Collect(df.index, [i \in DOMAIN series |-> RangeRow(config, series[i])]),
                      "records failed range validation"))

-----------------------------------------------------------------------------
(* NullCheckValidator *)

\* null_check recording the null rows whatever the parameters are
NullCheckValidateAlwaysRecords(config, df, column) ==
    LET series == df.cols[column]
    IN  Ok(MakeResult("null_check", Len(series),
                      Collect(df.index, [i \in DOMAIN series |->
                                  IF IsNa(series[i])
                                  THEN Fail(NullV, Reason("Null value not allowed", NullV))
                                  ELSE Pass]),
                      "records failed null check"))

NullCheckValidate(config, df, column) ==
    LET allow_null == Truthy(GetOr(config, "allow_null", BoolV(FALSE)))
        max_null_percent == Get(config, "max_null_percent")
        series == df.cols[column]
        total == Len(series)
        num_null == Cardinality({i \in DOMAIN series : IsNa(series[i])})
        \* percent > max_null_percent, with percent = num_null / total * 100 or 0.0
        exceeds == IF total # 0
                   THEN num_null * 1000 > Num(max_null_percent) * total
                   ELSE 0 > Num(max_null_percent)
        why == IF ~allow_null THEN Reason("Null value not allowed", NullV)
               ELSE IF exceeds THEN Reason("Null percentage exceeds limit", max_null_percent)
               ELSE Reason("Null present but within allowed limit", max_null_percent)
        records == ~allow_null \/ max_null_percent # NullV
    IN  Ok(MakeResult("null_check", total,
                      Collect(df.index, [i \in DOMAIN series |->
                                  IF records /\ IsNa(series[i]) THEN Fail(NullV, why) ELSE Pass]),
                      "records failed null check"))

-----------------------------------------------------------------------------
(* RegexValidator *)

UpperChar(c) == IF IsLower(c) THEN UpperChars[CHOOSE d \in DOMAIN LowerChars : LowerChars[d] = c] ELSE c

\* re.compile(pattern, flags) for patterns of the shape  ^? c* unit +? $?  where
\* c is a plain character and unit is [a-z], [0-9] or a plain character;
\* <<>> stands for re.error
Compile(cs, ignorecase) ==
    LET bol == Len(cs) > 0 /\ cs[1] = "^"
        r1 == IF bol THEN Tail(cs) ELSE cs
        eol == Len(r1) > 0 /\ r1[Len(r1)] = "$"
        r2 == IF eol THEN SubSeq(r1, 1, Len(r1) - 1) ELSE r1
        many == Len(r2) > 0 /\ r2[Len(r2)] = "+"
        atom == IF many THEN SubSeq(r2, 1, Len(r2) - 1) ELSE r2
        special == {"[", "]", "(", ")", "+", "*", "?", "^", "$", "\\", "|", "{", "}", "."}
        plain(s) == \A i \in DOMAIN s : s[i] \notin special
        isclass == Len(atom) >= 5 /\ atom[Len(atom)] = "]"
        class == SubSeq(atom, Len(atom) - 4, Len(atom))
        pre == IF isclass THEN SubSeq(atom, 1, Len(atom) - 5) ELSE SubSeq(atom, 1, Len(atom) - 1)
        re(kind, c) == <<[kind |-> kind, c |-> c, pre |-> pre, many |-> many, bol |-> bol,
                          eol |-> eol, ignorecase |-> ignorecase]>>
    IN  IF atom = <<>> THEN (IF many THEN <<>> ELSE re("empty", ""))
        ELSE IF ~plain(pre) THEN <<>>
        ELSE IF isclass /\ class = <<"[", "a", "-", "z", "]">> THEN re("lower", "")
        ELSE IF isclass /\ class = <<"[", "0", "-", "9", "]">> THEN re("digit", "")
        ELSE IF atom[Len(atom)] \notin special THEN re("char", atom[Len(atom)])
        ELSE <<>>

\* two characters are the same, up to case under re.IGNORECASE
SameChar(regex, p, c) == p = c \/ (regex.ignorecase /\ LowerChar(p) = LowerChar(c))

\* one character against the unit of a compiled pattern
UnitMatches(regex, c) ==
    LET hit(x) == CASE regex.kind = "lower" -> IsLower(x)
                    [] regex.kind = "digit" -> IsDigit(x)
                    [] regex.kind = "char" -> x = regex.c
                    [] OTHER -> FALSE
    IN  hit(c) \/ (regex.ignorecase /\ (hit(LowerChar(c)) \/ hit(UpperChar(c))))

\* the pattern matches text[from..]: the plain prefix, then k units, then (with $)
\* the end of the text
MatchesAt(regex, text, from) ==
    LET m == Len(regex.pre)
    IN  /\ from + m - 1 <= Len(text)
        /\ \A i \in 1..m : SameChar(regex, regex.pre[i], text[from + i - 1])
        /\ \E k \in 0..(Len(text) - from - m + 1) :
              /\ IF regex.kind = "empty" THEN k = 0
                 ELSE IF regex.many THEN k >= 1 ELSE k = 1
              /\ \A i \in (from + m)..(from + m + k - 1) : UnitMatches(regex, text[i])
              /\ regex.eol => from + m + k - 1 = Len(text)

\* regex.search(text): a match starting anywhere
ReSearch(regex, text) == \E from \in 1..(Len(text) + 1) : MatchesAt(regex, text, from)

\* regex.match(text): a match starting at position 0
ReMatch(regex, text) == MatchesAt(regex, text, 1)

\* text = str(val) as a value: a string is its own text, the text of any other
\* value is kept by the value it was made from
TextOf(val) == IF val.k = "str" THEN val ELSE [k |-> "text", n |-> val.n, s |-> val.k]

RegexRow(regex, val) ==
    IF IsNa(val) THEN Fail(NullV, Reason("Null value cannot match pattern", NullV))
    ELSE IF ~ReMatch(regex, Stringify(val))
         THEN Fail(TextOf(val), Reason("Does not match pattern", NullV))
         ELSE Pass

RegexValidate(config, df, column) ==
    LET pattern_value == Get(config, "pattern")
        case_sensitive == Truthy(GetOr(config, "case_sensitive", BoolV(TRUE)))
        compiled == Compile(Stringify(pattern_value), ~case_sensitive)
        series == df.cols[column]
    IN  IF pattern_value = NullV THEN Raise("ValueError")
        ELSE IF compiled = <<>> THEN Raise("ValueError")
        ELSE Ok(MakeResult("regex", LenDf(df),
                           Collect(df.index, [i \in DOMAIN series |-> RegexRow(compiled[1], series[i])]),
                           "records failed regex validation"))

-----------------------------------------------------------------------------
(* TypeValidator *)

TypeName(val) == IF val.k = "datetime" THEN "Timestamp" ELSE val.k

\* pd.to_datetime(val) succeeds: numbers are epoch offsets, a text must be a date
ParsesAsDate(val) ==
    CASE val.k \in {"int", "float", "datetime"} -> TRUE
      [] val.k = "str" -> LET cs == Chars(val.s)
                          IN  /\ Len(cs) = 10
                              /\ cs[5] = "-" /\ cs[8] = "-"
                              /\ \A i \in {1, 2, 3, 4, 6, 7, 9, 10} : IsDigit(cs[i])
      [] OTHER -> FALSE

\* the checks of one expected type on a non-null value: Pass, or Fail with str(e)
TypeRow(expected_type, strict, val) ==
    LET f == ToFloat(val)
        bad(t, a) == Fail(val, Reason(t, a))
        got == StrV(TypeName(val))
    IN  IF IsNa(val) THEN Fail(val, Reason("Null value", NullV))
        ELSE CASE expected_type = Chars("int") ->
                    IF strict
                    THEN IF val.k \in {"int", "bool"} THEN Pass ELSE bad("Expected int but got", got)
                    ELSE IF f = <<>> THEN bad("could not convert to float", NullV)
                         ELSE IF f[1] % 10 # 0
                              THEN bad("Non-integer value cannot be coerced to int", NullV)
                              ELSE Pass
               [] expected_type = Chars("float") ->
                    IF strict
                    THEN IF val.k = "float" THEN Pass ELSE bad("Expected float but got", got)
                    ELSE IF f = <<>> THEN bad("could not convert to float", NullV) ELSE Pass
               [] expected_type = Chars("string") ->
                    IF strict
                    THEN IF val.k = "str" THEN Pass ELSE bad("Expected string but got", got)
                    ELSE Pass
               [] expected_type = Chars("datetime") ->
                    IF strict
                    THEN IF val.k = "datetime" THEN Pass ELSE bad("Expected datetime but got", got)
                    ELSE IF ParsesAsDate(val) THEN Pass ELSE bad("cannot parse datetime", NullV)
               [] OTHER ->
                    IF strict
                    THEN IF val.k = "bool" THEN Pass ELSE bad("Expected bool but got", got)
                    ELSE IF \/ val.k = "bool"
                            \/ val.k \in {"int", "float"} /\ Num(val) \in {0, 10}
                            \/ val.k = "str" /\ Lower(Chars(val.s)) \in
                                   {Chars("true"), <<"f", "a", "l", "s", "e">>, <<"1">>, <<"0">>}
                         THEN Pass
                         ELSE bad("Cannot coerce value to bool", NullV)

TypeValidate(config, df, column) ==
    LET expected_type == Lower(Stringify(Get(config, "expected_type")))
        strict == Truthy(GetOr(config, "strict", BoolV(FALSE)))
        valid_types == {Chars("int"), Chars("float"), Chars("string"), Chars("datetime"), Chars("bool")}
        series == df.cols[column]
    IN  IF expected_type = <<>> THEN Raise("ValueError")
        ELSE IF expected_type \notin valid_types THEN Raise("ValueError")
        ELSE Ok(MakeResult("type", Len(series),
                           Collect(df.index, [i \in DOMAIN series |-> TypeRow(expected_type, strict, series[i])]),
                           "records failed type validation"))

-----------------------------------------------------------------------------
(* CustomFunctionValidator *)

\* func(val) for the callables the model supplies: [raised, result]
\*   always_true  lambda v: True
\*   is_str       lambda v: isinstance(v, str)
\*   int_of       lambda v: int(v)
CallFunc(func, val) ==
    CASE func.s = "always_true" -> [raised |-> FALSE, result |-> BoolV(TRUE)]
      [] func.s = "is_str" -> [raised |-> FALSE, result |-> BoolV(val.k = "str")]
      [] OTHER -> LET f == IF IsNa(val) THEN <<>> ELSE ToFloat(val)
                  IN  IF f = <<>> \/ (val.k = "str" /\ f[1] % 10 # 0)
                      THEN [raised |-> TRUE, result |-> NullV]
                      ELSE [raised |-> FALSE,
                            result |-> IntV((IF f[1] < 0 THEN -1 ELSE 1) * (Abs(f[1]) \div 10))]

\* CustomRow letting a row on which the callable raises pass
CustomRowIgnoresRaise(func, error_message, val) ==
    LET r == CallFunc(func, val)
    IN  IF r.raised \/ Truthy(r.result) THEN Pass
        ELSE Fail(val, IF Truthy(error_message)
                       THEN Reason("error_message", error_message)
                       ELSE Reason("Custom validation failed", NullV))

CustomRow(func, error_message, val) ==
    LET r == CallFunc(func, val)
    IN  IF r.raised THEN Fail(val, Reason("Exception in validation function", NullV))
        ELSE IF ~Truthy(r.result)
             THEN Fail(val, IF Truthy(error_message)
                            THEN Reason("error_message", error_message)
                            ELSE Reason("Custom validation failed", NullV))
             ELSE Pass

CustomValidate(config, df, column) ==
    LET func == Get(config, "validation_func")
        error_message == Get(config, "error_message")
        series == df.cols[column]
    IN  IF func = NullV THEN Raise("ValueError")
        ELSE Ok(MakeResult("custom_function", LenDf(df),
                           Collect(df.index, [i \in DOMAIN series |-> CustomRow(func, error_message, series[i])]),
                           "records failed custom validation"))

-----------------------------------------------------------------------------
(* Validators supplied by a user of the framework (subclasses of           *)
(* BaseValidator written outside the package):                             *)
(*   UserRange  name "range" (it overrides the built-in when registered),  *)
(*              one optional number "max_value"; a row fails when its      *)
(*              value is a number above max_value                          *)
(*   NotEmpty   name "not_empty", no parameters; a row fails when its      *)
(*              value is null or the empty string                          *)

UserRangeValidate(config, df, column) ==
    LET max_value == Get(config, "max_value")
        series == df.cols[column]
        row(val) == IF max_value # NullV /\ ~IsNa(val) /\ ToFloat(val) # <<>>
                       /\ ToFloat(val)[1] > Num(max_value)
                    THEN Fail(val, Reason("above", max_value)) ELSE Pass
    IN  Ok(MakeResult("range", LenDf(df),
                      Collect(df.index, [i \in DOMAIN series |-> row(series[i])]),
                      "records failed"))

NotEmptyValidate(config, df, column) ==
    LET series == df.cols[column]
        row(val) == IF IsNa(val) \/ val = StrV("")
                    THEN Fail(val, Reason("empty", NullV)) ELSE Pass
    IN  Ok(MakeResult("not_empty", LenDf(df),
                      Collect(df.index, [i \in DOMAIN series |-> row(series[i])]),
                      "records failed"))

-----------------------------------------------------------------------------
(* The validator classes *)

BuiltinClasses == {"RangeValidator", "NullCheckValidator", "RegexValidator",
                   "TypeValidator", "CustomFunctionValidator"}
UserClasses == {"UserRange", "NotEmpty"}
Classes == BuiltinClasses \cup UserClasses

\* the name property of a class
Name(cls) ==
    CASE cls = "RangeValidator" -> "range"
      [] cls = "NullCheckValidator" -> "null_check"
      [] cls = "RegexValidator" -> "regex"
      [] cls = "TypeValidator" -> "type"
      [] cls = "CustomFunctionValidator" -> "custom_function"
      [] cls = "UserRange" -> "range"
      [] cls = "NotEmpty" -> "not_empty"

\* validator.validate(df, column) of an instance of cls holding config
Validate(cls, config, df, column) ==
    CASE cls = "RangeValidator" -> RangeValidate(config, df, column)
      [] cls = "NullCheckValidator" -> NullCheckValidate(config, df, column)
      [] cls = "RegexValidator" -> RegexValidate(config, df, column)
      [] cls = "TypeValidator" -> TypeValidate(config, df, column)
      [] cls = "CustomFunctionValidator" -> CustomValidate(config, df, column)
      [] cls = "UserRange" -> UserRangeValidate(config, df, column)
      [] cls = "NotEmpty" -> NotEmptyValidate(config, df, column)

\* One parameter of a schema.  type is the declared type: "number" is the
\* tuple (int, float), the others are float, bool, str and Callable.
Param(name, type, default, required) ==
    [name |-> name, type |-> type, default |-> default, required |-> required]

\* cls({}).get_required_params(), in the order of the dict
Schema(cls) ==
    CASE cls = "RangeValidator" ->
            <<Param("min_value", "number", NullV, FALSE),
              Param("max_value", "number", NullV, FALSE),
              Param("inclusive", "bool", BoolV(TRUE), FALSE)>>
      [] cls = "NullCheckValidator" ->
            <<Param("allow_null", "bool", BoolV(FALSE), FALSE),
              Param("max_null_percent", "float", NullV, FALSE)>>
      [] cls = "RegexValidator" ->
            <<Param("pattern", "str", NullV, TRUE),
              Param("case_sensitive", "bool", BoolV(TRUE), FALSE)>>
      [] cls = "TypeValidator" ->
            <<Param("expected_type", "str", NullV, TRUE),
              Param("strict", "bool", BoolV(FALSE), FALSE)>>
      [] cls = "CustomFunctionValidator" ->
            <<Param("validation_func", "callable", NullV, TRUE),
              Param("error_message", "str", NullV, FALSE)>>
      [] cls = "UserRange" -> <<Param("max_value", "number", NullV, FALSE)>>
      [] cls = "NotEmpty" -> <<>>

SchemaKeys(cls) == {Schema(cls)[i].name : i \in DOMAIN Schema(cls)}

-----------------------------------------------------------------------------
(* Inputs: tables and validator configurations *)

\* a dict from a set of <<key, value>> pairs with distinct keys
Dict(pairs) == [key \in {p[1] : p \in pairs} |-> (CHOOSE p \in pairs : p[1] = key)[2]]
\* the ways of leaving a key out or giving it one of the values
Opt(key, values) == {{}} \cup {{<<key, v>>} : v \in values}

CellValues == {NullV, IntV(-1), IntV(10), FloatV(5), StrV("5"), StrV("abc"),
               StrV("Xyz"), StrV(""), BoolV(TRUE)}

SeqsUpTo(S, n) == UNION {[1..m -> S] : m \in 0..n}

\* df.index: the default RangeIndex, or row labels that are not positions
RowLabels(n, labelled) == [i \in 1..n |-> IF labelled THEN 10 * (n - i) + 3 ELSE i - 1]

\* a DataFrame of one column
Frame(column, values, labelled) ==
    [index |-> RowLabels(Len(values), labelled), cols |-> Dict({<<column, values>>})]

ValidateFrames == {Frame("c", vs, lb) : vs \in SeqsUpTo(CellValues, MaxRows), lb \in BOOLEAN}

Bools == {BoolV(TRUE), BoolV(FALSE)}

ValidateConfigs(cls) ==
    CASE cls = "RangeValidator" ->
            {Dict(a \cup b \cup c) :
                a \in Opt("min_value", {IntV(0), FloatV(5), IntV(10)}),
                b \in Opt("max_value", {NullV, IntV(10), FloatV(5)}),
                c \in Opt("inclusive", Bools)}
      [] cls = "NullCheckValidator" ->
            {Dict(a \cup b) :
                a \in Opt("allow_null", Bools),
                b \in Opt("max_null_percent", {IntV(0), FloatV(500), IntV(100)})}
      [] cls = "RegexValidator" ->
            {Dict(a \cup b) :
                a \in Opt("pattern", {StrV("^[a-z]+$"), StrV("[a-z]+"), StrV("["), StrV("abc")}),
                b \in Opt("case_sensitive", Bools)}
      [] cls = "TypeValidator" ->
            {Dict(a \cup b) :
                a \in Opt("expected_type", {StrV("int"), StrV("INT"), StrV("float"), StrV("string"),
                                            StrV("datetime"), StrV("bool"), StrV("uuid"), StrV("")}),
                b \in Opt("strict", Bools)}
      [] OTHER ->
            {Dict(a \cup b) :
                a \in Opt("validation_func", {CallableV("always_true"), CallableV("is_str"),
                                              CallableV("int_of")}),
                b \in Opt("error_message", {StrV("abc"), StrV("")})}

-----------------------------------------------------------------------------
(* The initial state: the package has been imported, which registers the   *)
(* five built-in validators; no pipeline exists.                           *)

Init ==
    /\ registry = [n \in {Name(c) : c \in BuiltinClasses} |->
                      CHOOSE c \in BuiltinClasses : Name(c) = n]
    /\ pipeline = <<>>
    /\ last_result = <<>>
    /\ loaded = <<>>
    /\ call = "init"
    /\ arg = <<>>
    /\ ret = <<>>
    /\ key_order = <<"range", "null_check", "regex", "type", "custom_function">>

-----------------------------------------------------------------------------
(* Direct use of a validator: create_validator(name, config).validate(df, column). *)
(* The call and its inputs are chosen first; the step runs validate on them.       *)

InitValidate ==
    /\ Init!1 /\ Init!2 /\ Init!3 /\ Init!4 /\ Init!8
    /\ call = "validate"
    /\ \E cls \in BuiltinClasses : \E config \in ValidateConfigs(cls) : \E df \in ValidateFrames :
          arg = [cls |-> cls, config |-> config, df |-> df, column |-> "c"]
    /\ ret = <<>>

DoValidate ==
    /\ call = "validate" /\ ret = <<>>
    /\ ret' = <<Validate(arg.cls, arg.config, arg.df, arg.column)>>
    /\ UNCHANGED <<registry, key_order, pipeline, last_result, loaded, call, arg>>

SpecValidate == InitValidate /\ [][DoValidate]_vars

-----------------------------------------------------------------------------
(* Properties of the validators (SpecValidate) *)

\* validate has returned a ValidationResult for an instance of cls
Validated(cls) == call = "validate" /\ ret # <<>> /\ ret[1].kind = "ok" /\ arg.cls = cls
ValidateResult == ret[1].val[1]
ValidateColumn == arg.df.cols[arg.column]
\* row i of the validated column has an entry in error_details
RowFailed(i) ==
    \E d \in DOMAIN ValidateResult.error_details :
        ValidateResult.error_details[d].row = arg.df.index[i]

\* C2: the range validator fails a non-null numeric value v iff
\*     (inclusive and ((min set and v < min) or (max set and v > max))) or
\*     (not inclusive and ((min set and v <= min) or (max set and v >= max)));
\*     every null and every non-numeric value fails whatever the bounds are.
C2_RangeRule ==
    Validated("RangeValidator") =>
        LET min == Get(arg.config, "min_value")
            max == Get(arg.config, "max_value")
            inclusive == GetOr(arg.config, "inclusive", BoolV(TRUE)) = BoolV(TRUE)
        IN  \A i \in DOMAIN ValidateColumn :
                LET v == ValidateColumn[i]
                    x == ToFloat(v)[1]
                IN  IF IsNa(v) \/ ToFloat(v) = <<>>
                    THEN RowFailed(i)
                    ELSE RowFailed(i) <=>
                           \/ inclusive /\ ( \/ (min # NullV /\ x < Num(min))
                                             \/ (max # NullV /\ x > Num(max)) )
                           \/ ~inclusive /\ ( \/ (min # NullV /\ x <= Num(min))
                                              \/ (max # NullV /\ x >= Num(max)) )

\* an exclusive range 0..10 was run on a column holding the bound 10 and a
\* non-numeric text: both rows failed
C2_Witness ==
    /\ Validated("RangeValidator")
    /\ arg.config = Dict({<<"min_value", IntV(0)>>, <<"max_value", IntV(10)>>,
                          <<"inclusive", BoolV(FALSE)>>})
    /\ ValidateColumn = <<IntV(10), StrV("abc")>>
    /\ ValidateResult.failed_records = 2

\* C3: the ValidationResult of every built-in validator has
\*     passed = (failed_records = 0), failed_records = number of entries of
\*     error_details and total_records = number of rows of the table; with no
\*     failing row error_details is empty and passed is true.
C3_ResultShape ==
    \A cls \in BuiltinClasses :
        Validated(cls) =>
            /\ ValidateResult.passed = (ValidateResult.failed_records = 0)
            /\ ValidateResult.failed_records = Len(ValidateResult.error_details)
            /\ ValidateResult.total_records = Len(arg.df.index)
            /\ (\A i \in DOMAIN ValidateColumn : ~RowFailed(i)) =>
                   (ValidateResult.error_details = <<>> /\ ValidateResult.passed = TRUE)

\* a two-row table on which one row failed and one passed
C3_Witness ==
    /\ Validated("RegexValidator")
    /\ ValidateResult.total_records = 2
    /\ ValidateResult.failed_records = 1
    /\ ~ValidateResult.passed

-----------------------------------------------------------------------------
(* ValidatorRegistry *)

\* get_validator(name): <<>> for None
GetValidator(reg, name) == IF name \in DOMAIN reg THEN <<reg[name]>> ELSE <<>>

-----------------------------------------------------------------------------
(* Configuration loader.                                                   *)
(* A configuration file is [exists, ext, parses, top_is_dict, config]; the *)
(* parsed top-level object config is [has_validations, is_list,            *)
(* validations]; an entry of validations is [is_dict, column, validator,   *)
(* params] where column, validator and params are <<>> when the key is     *)
(* absent or null.                                                         *)

\* isinstance(value, t) for a plain type, any(isinstance(value, t) ..) for the
\* tuple (int, float), callable(value) for Callable; bool is a subclass of int
TypeMatches(type, value) ==
    CASE type = "number" -> value.k \in {"int", "bool", "float"}
      [] type = "float" -> value.k = "float"
      [] type = "bool" -> value.k = "bool"
      [] type = "str" -> value.k = "str"
      [] type = "callable" -> value.k = "callable"

\* NormaliseParam that takes None for a parameter the entry leaves out, whatever
\* the schema says about it
NormaliseParamNoDefault(meta, params, validator_name, idx, column) ==
    LET value == IF meta.name \in DOMAIN params THEN params[meta.name] ELSE NullV
    IN  IF value # NullV /\ ~TypeMatches(meta.type, value)
        THEN RaiseMsg("InvalidConfigError", "must be of type", meta.name, validator_name, -1, "")
        ELSE Ok(value)

\* NormaliseParam that reports a missing required parameter without the entry
NormaliseParamNoIndex(meta, params, validator_name, idx, column) ==
    LET supplied == meta.name \in DOMAIN params
        value == IF supplied THEN params[meta.name] ELSE meta.default
    IN  IF ~supplied /\ meta.required /\ meta.default = NullV
        THEN RaiseMsg("InvalidConfigError", "Missing required parameter",
                      meta.name, validator_name, -1, column)
        ELSE IF value # NullV /\ ~TypeMatches(meta.type, value)
        THEN RaiseMsg("InvalidConfigError", "must be of type", meta.name, validator_name, -1, "")
        ELSE Ok(value)

\* one pass of the loop over schema.items(): the value of the parameter, or
\* the error raised for it
NormaliseParam(meta, params, validator_name, idx, column) ==
    LET supplied == meta.name \in DOMAIN params
        value == IF supplied THEN params[meta.name] ELSE meta.default
    IN  IF ~supplied /\ meta.required /\ meta.default = NullV
        THEN RaiseMsg("InvalidConfigError", "Missing required parameter",
                      meta.name, validator_name, idx, column)
        ELSE IF value # NullV /\ ~TypeMatches(meta.type, value)
        THEN RaiseMsg("InvalidConfigError",
                      IF meta.type = "callable" THEN "must be callable" ELSE "must be of type",
                      meta.name, validator_name, -1, "")
        ELSE Ok(value)

\* UnknownParams with the check for undeclared parameters left out
UnknownParamsUnchecked(params, cls) == {}

\* the supplied parameter names the loop "for param_name in params" rejects
UnknownParams(params, cls) == {q \in DOMAIN params : q \notin SchemaKeys(cls)}

\* the body of the loop over the entries, for the entry at index idx
NormaliseEntry(reg, idx, entry) ==
    LET params == IF entry.params = <<>> \/ DOMAIN entry.params[1] = {} THEN <<>> ELSE entry.params[1]
        column == entry.column[1]
        validator_name == entry.validator[1]
        validator_class == GetValidator(reg, validator_name)
        schema == Schema(validator_class[1])
        each == [i \in DOMAIN schema |-> NormaliseParam(schema[i], params, validator_name, idx, column)]
        bad == {i \in DOMAIN schema : each[i].kind # "ok"}
        unknown == UnknownParams(params, validator_class[1])
    IN  IF ~entry.is_dict
        THEN RaiseMsg("InvalidConfigError", "must be a dict", "", "", idx, "")
        ELSE IF entry.column = <<>> \/ entry.validator = <<>>
        THEN RaiseMsg("InvalidConfigError", "must contain 'column' and 'validator' keys", "", "", idx, "")
        ELSE IF validator_class = <<>>
        THEN RaiseMsg("UnknownValidatorError", "Unknown validator", "", validator_name, idx, "")
        ELSE IF bad # {}
        THEN each[CHOOSE i \in bad : \A j \in bad : i <= j]
        ELSE IF unknown # {}
        THEN RaiseMsg("InvalidConfigError", "Unknown parameter",
                      CHOOSE q \in unknown : TRUE, validator_name, idx, "")
        ELSE Ok([column |-> column, validator |-> validator_name,
                 params |-> [i \in SchemaKeys(validator_class[1]) |->
                                each[CHOOSE j \in DOMAIN schema : schema[j].name = i].val[1]]])

\* ValidateAndNormaliseConfig that checks every entry and reports the last error
ValidateAndNormaliseConfigLastError(reg, config) ==
    LET validations == config.validations
        each == [i \in DOMAIN validations |-> NormaliseEntry(reg, i - 1, validations[i])]
        bad == {i \in DOMAIN validations : each[i].kind # "ok"}
    IN  IF ~config.has_validations \/ ~config.is_list
        THEN RaiseMsg("InvalidConfigError", "must contain a 'validations' list", "", "", -1, "")
        ELSE IF bad # {}
        THEN each[CHOOSE i \in bad : \A j \in bad : i >= j]
        ELSE Ok([i \in DOMAIN validations |-> each[i].val[1]])

\* _validate_and_normalise_config(config): the first error in entry order, or
\* the list of normalised entries
ValidateAndNormaliseConfig(reg, config) ==
    LET validations == config.validations
        each == [i \in DOMAIN validations |-> NormaliseEntry(reg, i - 1, validations[i])]
        bad == {i \in DOMAIN validations : each[i].kind # "ok"}
    IN  IF ~config.has_validations
        THEN RaiseMsg("InvalidConfigError", "must contain a 'validations' list", "", "", -1, "")
        ELSE IF ~config.is_list
        THEN RaiseMsg("InvalidConfigError", "'validations' must be a list", "", "", -1, "")
        ELSE IF bad # {}
        THEN each[CHOOSE i \in bad : \A j \in bad : i <= j]
        ELSE Ok([i \in DOMAIN validations |-> each[i].val[1]])

\* os.path.splitext(path)[1].lower()
LowerExt(ext) == IF ext = ".JSON" THEN ".json" ELSE ext

\* load_config(path): a PipelineConfig (its validations list), or the error
LoadConfig(reg, file) ==
    LET ext == LowerExt(file.ext)
    IN  IF ~file.exists
        THEN RaiseMsg("InvalidConfigError", "Configuration file not found", "", "", -1, "")
        ELSE IF ext \notin {".json", ".yaml", ".yml"}
        THEN RaiseMsg("InvalidConfigError", "Unsupported configuration file extension", "", "", -1, "")
        ELSE IF ~file.parses
        THEN Raise(IF ext = ".json" THEN "JSONDecodeError" ELSE "YAMLError")
        ELSE IF ~file.top_is_dict
        THEN RaiseMsg("InvalidConfigError", "Top level of config file must be a JSON/YAML object", "", "", -1, "")
        ELSE ValidateAndNormaliseConfig(reg, file.config)

-----------------------------------------------------------------------------
(* Inputs: configuration files *)

Entry(column, validator, params) ==
    [is_dict |-> TRUE, column |-> column, validator |-> validator, params |-> params]
\* an entry that is not a mapping (a string, a number, a list)
NotADict == [is_dict |-> FALSE, column |-> <<>>, validator |-> <<>>, params |-> <<>>]

\* the smallest params a validator's schema accepts
BaseParams(name) ==
    CASE name = "regex" -> Dict({<<"pattern", StrV("^[a-z]+$")>>})
      [] name = "type" -> Dict({<<"expected_type", StrV("int")>>})
      [] name = "custom_function" -> Dict({<<"validation_func", CallableV("is_str")>>})
      [] OTHER -> Dict({})

\* d with key set to value, and d without key
With(d, key, value) == [q \in DOMAIN d \cup {key} |-> IF q = key THEN value ELSE d[q]]
Without(d, key) == [q \in DOMAIN d \ {key} |-> d[q]]

\* one value of each kind a document (or a programmatic caller) can supply
SampleValues == {NullV, IntV(10), FloatV(5), BoolV(TRUE), StrV("int"), CallableV("is_str")}

BuiltinNames == {Name(c) : c \in BuiltinClasses}
BuiltinClass(name) == CHOOSE c \in BuiltinClasses : Name(c) = name

\* the params tried for a validator: the base, the base with one declared
\* parameter set to each sample value, the base without one of its keys, the
\* base with an undeclared key
ParamsFor(name) ==
    LET base == BaseParams(name)
    IN  {base}
        \cup {With(base, q, v) : q \in SchemaKeys(BuiltinClass(name)), v \in SampleValues}
        \cup {Without(base, q) : q \in DOMAIN base}
        \cup {With(base, "colour", IntV(10))}

LoadEntries ==
    UNION {{Entry(<<"c">>, <<name>>, <<ps>>) : ps \in ParamsFor(name)} : name \in BuiltinNames}
    \cup {Entry(<<"c">>, <<"range">>, <<>>),
          Entry(<<"c">>, <<"nope">>, <<>>),
          Entry(<<"c">>, <<"nope">>, <<Dict({<<"colour", IntV(10)>>})>>),
          Entry(<<"c">>, <<"not_empty">>, <<>>),
          Entry(<<>>, <<"nope">>, <<>>),
          Entry(<<>>, <<"range">>, <<>>),
          Entry(<<"c">>, <<>>, <<>>),
          NotADict}

\* the entries that stand beside the one under study in a longer document: a
\* valid one, one naming an unregistered validator, one lacking a required
\* parameter, one with an undeclared parameter
ContextEntries ==
    {Entry(<<"c">>, <<"range">>, <<Dict({<<"min_value", IntV(10)>>})>>),
     Entry(<<"c">>, <<"nope">>, <<>>),
     Entry(<<"c">>, <<"regex">>, <<Dict({})>>),
     Entry(<<"c">>, <<"range">>, <<With(Dict({}), "colour", IntV(10))>>)}

\* the validations lists: up to n entries, one of them any entry, the others
\* context entries
ValidationLists(n) ==
    {<<>>} \cup
    UNION {UNION {{[i \in 1..m |-> IF i = pos THEN e ELSE ctx[i]] :
                        e \in LoadEntries, ctx \in [1..m -> ContextEntries]} :
                  pos \in 1..m} :
           m \in 1..n}

File(ext, validations) ==
    [exists |-> TRUE, ext |-> ext, parses |-> TRUE, top_is_dict |-> TRUE,
     config |-> [has_validations |-> TRUE, is_list |-> TRUE, validations |-> validations]]

ConfigFiles ==
    {File(".json", vs) : vs \in ValidationLists(MaxEntries)}
    \cup {File(ext, <<>>) : ext \in {".yaml", ".yml", ".JSON", ".txt", ""}}
    \cup {[File(ext, <<>>) EXCEPT !.exists = FALSE] : ext \in {".json", ".txt"}}
    \cup {[File(ext, <<>>) EXCEPT !.parses = FALSE] : ext \in {".json", ".yaml", ".txt"}}
    \cup {[File(ext, <<>>) EXCEPT !.top_is_dict = FALSE] : ext \in {".json", ".yml"}}
    \cup {[File(".json", <<>>) EXCEPT !.config.has_validations = FALSE],
          [File(".json", <<>>) EXCEPT !.config.is_list = FALSE]}

-----------------------------------------------------------------------------
(* Loading a configuration file: load_config(path).  The file is chosen    *)
(* first; the step loads it against the registry.                          *)

InitLoad ==
    /\ Init!1 /\ Init!2 /\ Init!3 /\ Init!4 /\ Init!8
    /\ call = "load"
    /\ arg \in ConfigFiles
    /\ ret = <<>>

DoLoad ==
    /\ call = "load" /\ ret = <<>>
    /\ ret' = <<LoadConfig(registry, arg)>>
    /\ loaded' = IF ret'[1].kind = "ok" THEN ret'[1].val ELSE loaded
    /\ UNCHANGED <<registry, key_order, pipeline, last_result, call, arg>>

SpecLoad == InitLoad /\ [][DoLoad]_vars

-----------------------------------------------------------------------------
(* Properties of the configuration loader (SpecLoad) *)

LoadDone == call = "load" /\ ret # <<>>
LoadRet == ret[1]
\* the file reaches the loop over its entries
WellFormed ==
    /\ arg.exists /\ LowerExt(arg.ext) \in {".json", ".yaml", ".yml"} /\ arg.parses
    /\ arg.top_is_dict /\ arg.config.has_validations /\ arg.config.is_list
DocEntries == arg.config.validations
ParamsOf(e) == IF e.params = <<>> THEN Dict({}) ELSE e.params[1]
HasKeys(e) == e.is_dict /\ e.column # <<>> /\ e.validator # <<>>
NamesUnregistered(e) == e.is_dict /\ e.validator # <<>> /\ e.validator[1] \notin DOMAIN registry
NamesRegistered(e) == e.is_dict /\ e.validator # <<>> /\ e.validator[1] \in DOMAIN registry
ClassOf(e) == registry[e.validator[1]]
\* the entry leaves out parameter q, which its schema marks required with no default
OmitsRequired(e, q) ==
    /\ NamesRegistered(e)
    /\ \E i \in DOMAIN Schema(ClassOf(e)) :
          LET meta == Schema(ClassOf(e))[i]
          IN  meta.name = q /\ meta.required /\ meta.default = NullV
    /\ q \notin DOMAIN ParamsOf(e)
SuppliesUndeclared(e) ==
    NamesRegistered(e) /\ \E q \in DOMAIN ParamsOf(e) : q \notin SchemaKeys(ClassOf(e))
\* every entry before entry i is accepted by the loader
EarlierEntriesValid(i) ==
    \A j \in 1..(i - 1) : NormaliseEntry(registry, j - 1, DocEntries[j]).kind = "ok"
RequiredNoDefault == {"pattern", "expected_type", "validation_func"}

\* C6 as claimed: whenever some entry names an unregistered validator, load fails
\*     with UnknownValidatorError, whatever else the document contains.
C6_AlwaysUnknownKind ==
    (LoadDone /\ WellFormed /\ \E i \in DOMAIN DocEntries : NamesUnregistered(DocEntries[i]))
        => LoadRet.kind = "UnknownValidatorError"

\* C6: when some entry names an unregistered validator, load fails; it fails
\*     with UnknownValidatorError, citing that name and the entry's index,
\*     when that entry has a column and every earlier entry is valid, and
\*     otherwise with InvalidConfigError or UnknownValidatorError for the
\*     first defect in document order.
C6_UnknownValidator ==
    (LoadDone /\ WellFormed) =>
        \A i \in DOMAIN DocEntries :
            NamesUnregistered(DocEntries[i]) =>
                /\ LoadRet.kind \in {"UnknownValidatorError", "InvalidConfigError"}
                /\ (HasKeys(DocEntries[i]) /\ EarlierEntriesValid(i)) =>
                       /\ LoadRet.kind = "UnknownValidatorError"
                       /\ LoadRet.msg[1].validator = DocEntries[i].validator[1]
                       /\ LoadRet.msg[1].idx = i - 1

\* a valid entry followed by an entry naming an unregistered validator
C6_Witness ==
    /\ LoadDone /\ WellFormed /\ Len(DocEntries) = 2
    /\ NormaliseEntry(registry, 0, DocEntries[1]).kind = "ok"
    /\ NamesUnregistered(DocEntries[2]) /\ HasKeys(DocEntries[2])
    /\ LoadRet.kind = "UnknownValidatorError" /\ LoadRet.msg[1].idx = 1

\* C7: whenever load succeeds, the params of every returned entry have
\*     exactly the keys of the validator's schema; a key the document
\*     supplied keeps the supplied value, any other holds the declared default.
C7_FullKeySet ==
    (LoadDone /\ LoadRet.kind = "ok") =>
        /\ Len(LoadRet.val[1]) = Len(DocEntries)
        /\ \A i \in DOMAIN DocEntries :
              LET out == LoadRet.val[1][i].params
                  cls == ClassOf(DocEntries[i])
                  given == ParamsOf(DocEntries[i])
              IN  /\ DOMAIN out = SchemaKeys(cls)
                  /\ \A j \in DOMAIN Schema(cls) :
                        LET meta == Schema(cls)[j]
                        IN  out[meta.name] = IF meta.name \in DOMAIN given
                                             THEN given[meta.name] ELSE meta.default

\* a loaded regex entry that supplied the pattern only: case_sensitive was
\* filled with its default
C7_Witness ==
    /\ LoadDone /\ LoadRet.kind = "ok" /\ Len(DocEntries) = 2
    /\ DocEntries[2].validator = <<"regex">>
    /\ DOMAIN ParamsOf(DocEntries[2]) = {"pattern"}
    /\ LoadRet.val[1][2].params["case_sensitive"] = BoolV(TRUE)

\* C8 as claimed: whenever an entry omits a required parameter that has no
\*     default, load fails with InvalidConfigError citing that parameter and
\*     the index of that entry.
C8_AlwaysCitesMissing ==
    (LoadDone /\ WellFormed) =>
        \A i \in DOMAIN DocEntries : \A q \in RequiredNoDefault :
            OmitsRequired(DocEntries[i], q) =>
                /\ LoadRet.kind = "InvalidConfigError"
                /\ LoadRet.msg[1].param = q
                /\ LoadRet.msg[1].idx = i - 1

\* C8: when an entry omits a required parameter that has no default, load
\*     fails; when that entry has a column and every earlier entry is valid,
\*     it fails with InvalidConfigError citing that parameter and the index
\*     of that entry.
C8_MissingRequired ==
    (LoadDone /\ WellFormed) =>
        \A i \in DOMAIN DocEntries : \A q \in RequiredNoDefault :
            OmitsRequired(DocEntries[i], q) =>
                /\ LoadRet.kind \in {"UnknownValidatorError", "InvalidConfigError"}
                /\ (HasKeys(DocEntries[i]) /\ EarlierEntriesValid(i)) =>
                       /\ LoadRet.kind = "InvalidConfigError"
                       /\ LoadRet.msg[1].text = "Missing required parameter"
                       /\ LoadRet.msg[1].param = q
                       /\ LoadRet.msg[1].idx = i - 1

\* a valid entry followed by a type entry without expected_type
C8_Witness ==
    /\ LoadDone /\ WellFormed /\ Len(DocEntries) = 2
    /\ NormaliseEntry(registry, 0, DocEntries[1]).kind = "ok"
    /\ OmitsRequired(DocEntries[2], "expected_type") /\ HasKeys(DocEntries[2])
    /\ LoadRet.kind = "InvalidConfigError"
    /\ LoadRet.msg[1].param = "expected_type" /\ LoadRet.msg[1].idx = 1

\* the kind of value the claim says each parameter accepts
ClaimedKinds(q) ==
    CASE q \in {"min_value", "max_value", "max_null_percent"} -> {"int", "float"}
      [] q \in {"inclusive", "allow_null", "case_sensitive", "strict"} -> {"bool"}
      [] q \in {"pattern", "expected_type", "error_message"} -> {"str"}
      [] q = "validation_func" -> {"callable"}
      [] OTHER -> {}

\* C9: load accepts a supplied non-null parameter value iff it is of the
\*     declared kind: a number (int or float, not bool, not string) for
\*     min_value, max_value and max_null_percent, a boolean for inclusive,
\*     allow_null, case_sensitive and strict, a string for pattern,
\*     expected_type and error_message, a callable for validation_func; any
\*     other value makes load fail with InvalidConfigError.  (Stated for a
\*     document of one entry that is otherwise valid.)
C9_DeclaredKinds ==
    (LoadDone /\ WellFormed /\ Len(DocEntries) = 1 /\ HasKeys(DocEntries[1])
        /\ NamesRegistered(DocEntries[1]) /\ ~SuppliesUndeclared(DocEntries[1])
        /\ \A q \in RequiredNoDefault : ~OmitsRequired(DocEntries[1], q)) =>
        LET given == ParamsOf(DocEntries[1])
            fits == \A q \in DOMAIN given : given[q] = NullV \/ given[q].k \in ClaimedKinds(q)
        IN  /\ fits <=> LoadRet.kind = "ok"
            /\ ~fits => LoadRet.kind = "InvalidConfigError"

-----------------------------------------------------------------------------
(* ValidatorRegistry.register *)

\* the keys of the dict after register(cls): a new key goes last, a key in
\* use keeps its place
RegisteredKeys(keys, cls) ==
    IF \E i \in DOMAIN keys : keys[i] = Name(cls) THEN keys ELSE Append(keys, Name(cls))

\* register(cls) starting the dict afresh: the new entry is the only one
RegisteredAlone(reg, cls) == [n \in {Name(cls)} |-> cls]

\* register(cls) keeping the class already stored under the name
RegisteredFirstWins(reg, cls) ==
    [n \in DOMAIN reg \cup {Name(cls)} |-> IF n \in DOMAIN reg THEN reg[n] ELSE cls]

\* the registry after register(cls): the entry keyed by the name of an
\* instance of cls is stored or overwritten
Registered(reg, cls) ==
    [n \in DOMAIN reg \cup {Name(cls)} |-> IF n = Name(cls) THEN cls ELSE reg[n]]

-----------------------------------------------------------------------------
(* ValidationPipeline *)

\* ValidationPipeline(config) leaving out the entries it cannot build a
\* validator for
ConstructPartial(reg, validations) ==
    LET known == SelectSeq(validations,
                           LAMBDA s : /\ s.is_dict /\ s.column # <<>> /\ s.validator # <<>>
                                      /\ GetValidator(reg, s.validator[1]) # <<>>)
    IN  Ok([i \in DOMAIN known |->
              [column |-> known[i].column[1],
               validator |-> [cls |-> GetValidator(reg, known[i].validator[1])[1],
                              config |-> IF known[i].params = <<>> THEN Dict({})
                                         ELSE known[i].params[1]]]])

\* ValidationPipeline(config): the first error in entry order, or the list
\* _validator_specs of [column, validator] with validator an instance
\* [cls, config] of the class registered under the entry's name
Construct(reg, validations) ==
    LET one(idx, spec) ==
            LET validator_class == GetValidator(reg, spec.validator[1])
            IN  IF ~spec.is_dict
                THEN RaiseMsg("InvalidConfigError", "must be a dict", "", "", idx, "")
                ELSE IF spec.column = <<>> \/ spec.validator = <<>>
                THEN RaiseMsg("InvalidConfigError", "must contain 'column' and 'validator' keys",
                              "", "", idx, "")
                ELSE IF validator_class = <<>>
                THEN RaiseMsg("UnknownValidatorError", "Unknown validator", "",
                              spec.validator[1], idx, "")
                ELSE Ok([column |-> spec.column[1],
                         validator |-> [cls |-> validator_class[1],
                                        config |-> IF spec.params = <<>> THEN Dict({})
                                                   ELSE spec.params[1]]])
        each == [i \in DOMAIN validations |-> one(i - 1, validations[i])]
        bad == {i \in DOMAIN validations : each[i].kind # "ok"}
    IN  IF bad # {}
        THEN each[CHOOSE i \in bad : \A j \in bad : i <= j]
        ELSE Ok([i \in DOMAIN validations |-> each[i].val[1]])

RECURSIVE SumTo(_, _)
SumTo(f, n) == IF n = 0 THEN 0 ELSE SumTo(f, n - 1) + f[n]

\* The loop of run() putting each result in front of the earlier ones
RECURSIVE RunLoopReversed(_, _, _, _)
RunLoopReversed(specs, df, index, results) ==
    IF index > Len(specs) THEN Ok(results)
    ELSE IF specs[index].column \notin DOMAIN df.cols
    THEN RaiseMsg("InvalidConfigError", "not found in input data", "", "", -1,
                  specs[index].column)
    ELSE LET result == Validate(specs[index].validator.cls, specs[index].validator.config,
                                df, specs[index].column)
         IN  IF result.kind # "ok" THEN result
             ELSE RunLoopReversed(specs, df, index + 1, result.val \o results)

\* The loop of run() reporting a missing column as a failed validation and
\* going on to the next entry
RECURSIVE RunLoopSkipMissing(_, _, _, _)
RunLoopSkipMissing(specs, df, index, results) ==
    IF index > Len(specs) THEN Ok(results)
    ELSE LET result ==
                 IF specs[index].column \notin DOMAIN df.cols
                 THEN Ok(MakeResult(Name(specs[index].validator.cls), LenDf(df),
                                    <<[row |-> -1, value |-> NullV,
                                       reason |-> Reason("Column not found", NullV)]>>,
                                    "column missing"))
                 ELSE Validate(specs[index].validator.cls, specs[index].validator.config,
                               df, specs[index].column)
         IN  IF result.kind # "ok" THEN result
             ELSE RunLoopSkipMissing(specs, df, index + 1, results \o result.val)

\* The loop of run(df) over _validator_specs from entry index on, results
\* being the results appended so far: the error raised by the first entry
\* whose column is missing or whose validator raises, or the list of the
\* validators' results in the order of the entries
RECURSIVE RunLoop(_, _, _, _)
\* The loop of run() dropping a validator that raises and going on to the
\* next entry
RunLoopAppendSwallow(specs, df, index, results, result) ==
    IF result.kind # "ok" THEN RunLoop(specs, df, index + 1, results)
    ELSE RunLoop(specs, df, index + 1, results \o result.val)

RunLoopAppend(specs, df, index, results, result) ==
    IF result.kind # "ok" THEN result
    ELSE RunLoop(specs, df, index + 1, results \o result.val)

RunLoop(specs, df, index, results) ==
    IF index > Len(specs) THEN Ok(results)
    ELSE IF specs[index].column \notin DOMAIN df.cols
    THEN RaiseMsg("InvalidConfigError", "not found in input data", "", "", -1,
                  specs[index].column)
    ELSE RunLoopAppend(specs, df, index, results,
                       Validate(specs[index].validator.cls, specs[index].validator.config,
                                df, specs[index].column))

\* run() looking for every column before it calls the first validator
RunCallsColumnsFirst(specs, df, index, calls) ==
    IF \E i \in DOMAIN specs : specs[i].column \notin DOMAIN df.cols THEN <<>>
    ELSE [i \in 1..Len(specs) |-> i]

\* The calls of validator.validate the loop of run(df) makes from entry
\* index on, calls being those made so far: the entries whose validator was
\* called, in the order of the calls.  The loop stops at the first entry
\* whose column is missing, before the call, or whose validator raises, in
\* the call.
RECURSIVE RunCalls(_, _, _, _)
RunCalls(specs, df, index, calls) ==
    IF index > Len(specs) THEN calls
    ELSE IF specs[index].column \notin DOMAIN df.cols THEN calls
    ELSE IF Validate(specs[index].validator.cls, specs[index].validator.config,
                     df, specs[index].column).kind # "ok"
         THEN Append(calls, index)
         ELSE RunCalls(specs, df, index + 1, Append(calls, index))

\* The rest of run() with any() in the place of all(): overall passed as
\* soon as one validator passed
AggregateAnyPassed(total, looped, ticks) ==
    IF looped.kind # "ok" THEN looped
    ELSE LET results == looped.val[1]
             passed_count == Cardinality({i \in DOMAIN results : results[i].passed})
         IN  Ok([passed |-> passed_count > 0 \/ total = 0,
                 total_validations |-> total,
                 passed_validations |-> passed_count,
                 failed_validations |-> Len(results) - passed_count,
                 results |-> [i \in DOMAIN results |->
                                [results[i] EXCEPT !.duration_seconds = <<ticks[i]>>]],
                 duration_seconds |-> <<SumTo(ticks, total + 1)>>])

\* The rest of run(), total being len(_validator_specs): the durations, the
\* counts kept while looping and the PipelineResult.  ticks[i] is the time
\* validator i took, ticks[total + 1] the time run spent outside the
\* validators.
Aggregate(total, looped, ticks) ==
    IF looped.kind # "ok" THEN looped
    ELSE LET results == [i \in DOMAIN looped.val[1] |->
                            [looped.val[1][i] EXCEPT !.duration_seconds = <<ticks[i]>>]]
             passed_count == Cardinality({i \in DOMAIN results : results[i].passed})
             failed_count == Cardinality({i \in DOMAIN results : ~results[i].passed})
         IN  Ok([passed |-> failed_count = 0,
                 total_validations |-> total,
                 passed_validations |-> passed_count,
                 failed_validations |-> failed_count,
                 results |-> results,
                 duration_seconds |-> <<SumTo(ticks, total + 1)>>])

\* get_summary() rendering an empty summary where no result is held
GetSummaryLenient(specs, last) ==
    IF last = <<>>
    THEN Ok([blocks |-> <<>>, overall |-> "PASSED", passed |-> 0, failed |-> 0,
             total |-> 0, duration |-> <<>>])
    ELSE Ok([blocks |-> <<>>, overall |-> IF last[1].passed THEN "PASSED" ELSE "FAILED",
             passed |-> last[1].passed_validations, failed |-> last[1].failed_validations,
             total |-> last[1].total_validations, duration |-> last[1].duration_seconds])

\* get_summary(): RuntimeError before the first run, else the rendered text:
\* one block per (spec, result) pair, then the overall lines
GetSummary(specs, last) ==
    IF last = <<>> THEN Raise("RuntimeError")
    ELSE LET pr == last[1]
             n == IF Len(specs) < Len(pr.results) THEN Len(specs) ELSE Len(pr.results)
         IN  Ok([blocks |-> [idx \in 1..n |->
                                [idx |-> idx,
                                 validator |-> pr.results[idx].validator_name,
                                 column |-> specs[idx].column,
                                 status |-> IF pr.results[idx].passed THEN "PASSED" ELSE "FAILED",
                                 message |-> pr.results[idx].message,
                                 failed_records |->
                                    IF pr.results[idx].passed THEN <<>>
                                    ELSE [d \in DOMAIN pr.results[idx].error_details |->
                                            [pr.results[idx].error_details[d] EXCEPT
                                                !.row = @ + 1]]]],
                 overall |-> IF pr.passed THEN "PASSED" ELSE "FAILED",
                 passed |-> pr.passed_validations,
                 failed |-> pr.failed_validations,
                 total |-> pr.total_validations,
                 duration |-> pr.duration_seconds])

-----------------------------------------------------------------------------
(* Inputs: programmatic pipeline configurations, tables, clock readings *)

\* the entries a PipelineConfig is made of: a range check of column num, a
\* regex check of column word, a type check with an unsupported expected_type,
\* a check by a validator that only a user registers, an entry without column
PipelineEntries ==
    {Entry(<<"num">>, <<"range">>, <<Dict({<<"min_value", IntV(0)>>, <<"max_value", IntV(10)>>})>>),
     Entry(<<"word">>, <<"regex">>, <<Dict({<<"pattern", StrV("^[a-z]+$")>>})>>),
     Entry(<<"num">>, <<"type">>, <<Dict({<<"expected_type", StrV("uuid")>>})>>),
     Entry(<<"word">>, <<"regex">>, <<Dict({<<"pattern", StrV("[")>>})>>),
     Entry(<<"word">>, <<"not_empty">>, <<>>),
     Entry(<<>>, <<"range">>, <<>>)}

PipelineConfigs == SeqsUpTo(PipelineEntries, MaxEntries)

\* a table whose column word fails the regex check in the second row, one
\* whose column num fails the range check in the second row, and one without
\* the column word
Tables ==
    {[index |-> <<0, 1>>,
      cols |-> Dict({<<"num", <<IntV(5), IntV(10)>>>>, <<"word", <<StrV("abc"), StrV("Xyz")>>>>})],
     [index |-> <<0, 1>>,
      cols |-> Dict({<<"num", <<IntV(5), IntV(15)>>>>, <<"word", <<StrV("abc"), StrV("abc")>>>>})],
     [index |-> <<0>>,
      cols |-> Dict({<<"num", <<IntV(10)>>>>})]}

\* the differences of two readings of time.perf_counter()
Ticks == {0, 1}


-----------------------------------------------------------------------------
(* The life of one pipeline: validators are registered, the pipeline is    *)
(* constructed from a PipelineConfig, run on tables and summarised.        *)

\* ValidatorRegistry.register(cls), at any time
DoRegister(cls) ==
    /\ registry' = Registered(registry, cls)
    /\ key_order' = RegisteredKeys(key_order, cls)
    /\ call' = "register"
    /\ arg' = cls
    /\ ret' = Ok(cls)
    /\ UNCHANGED <<pipeline, last_result, loaded>>

\* pipeline = ValidationPipeline(PipelineConfig(validations)); when __init__
\* raises there is no instance
DoConstruct(validations) ==
    /\ pipeline = <<>>
    /\ LET out == Construct(registry, validations)
       IN  /\ ret' = out
           /\ pipeline' = IF out.kind = "ok"
                         THEN <<[config |-> validations, specs |-> out.val[1]]>>
                         ELSE <<>>
    /\ last_result' = <<>>
    /\ call' = "construct"
    /\ arg' = validations
    /\ UNCHANGED <<registry, key_order, loaded>>

\* run with validators that keep their failure details from one run to the
\* next: the details of the last result come before the new ones
DoReturnAccumulating(out) ==
    LET carried(i) ==
            IF last_result # <<>> /\ i \in DOMAIN last_result[1].results
               /\ last_result[1].results[i].failed_records
                     <= last_result[1].results[i].total_records
            THEN last_result[1].results[i].error_details ELSE <<>>
        acc == IF out.kind # "ok" THEN out
               ELSE Ok([out.val[1] EXCEPT !.results =
                           [i \in DOMAIN out.val[1].results |->
                               [out.val[1].results[i] EXCEPT
                                   !.error_details = carried(i) \o @,
                                   !.failed_records = Len(carried(i)) + @]]])
    IN  /\ ret' = acc
        /\ last_result' = IF acc.kind = "ok" THEN acc.val ELSE last_result

\* run keeping the first PipelineResult for good
DoReturnKeepFirst(out) ==
    /\ ret' = out
    /\ last_result' = IF out.kind = "ok" /\ last_result = <<>> THEN out.val ELSE last_result

\* run forgetting the last result when it fails
DoReturnClearsOnError(out) ==
    /\ ret' = out
    /\ last_result' = IF out.kind = "ok" THEN out.val ELSE <<>>

\* run returns out: a PipelineResult is kept in _last_result, an error
\* propagates and leaves it alone
DoReturn(out) ==
    /\ ret' = out
    /\ last_result' = IF out.kind = "ok" THEN out.val ELSE last_result

\* the loop done, the clock readings give each validator's time and the
\* time of the rest of run
DoAggregate(looped) ==
    \E ticks \in [1..(Len(pipeline[1].specs) + 1) -> Ticks] :
        DoReturn(Aggregate(Len(pipeline[1].specs), looped, ticks))

\* run looking every validator up in the registry again, by the name its
\* entry gives
DoRunRebinding(df) ==
    /\ pipeline # <<>>
    /\ DoAggregate(RunLoop([i \in DOMAIN pipeline[1].specs |->
                               [pipeline[1].specs[i] EXCEPT !.validator.cls =
                                   registry[pipeline[1].config[i].validator[1]]]],
                           df, 1, <<>>))
    /\ call' = "run"
    /\ arg' = df
    /\ UNCHANGED <<registry, key_order, pipeline, loaded>>

\* pipeline.run(df)
DoRun(df) ==
    /\ pipeline # <<>>
    /\ DoAggregate(RunLoop(pipeline[1].specs, df, 1, <<>>))
    /\ call' = "run"
    /\ arg' = df
    /\ UNCHANGED <<registry, key_order, pipeline, loaded>>

\* pipeline.get_summary()
DoGetSummary ==
    /\ pipeline # <<>>
    /\ ret' = GetSummary(pipeline[1].specs, last_result)
    /\ call' = "get_summary"
    /\ arg' = <<>>
    /\ UNCHANGED <<registry, key_order, pipeline, last_result, loaded>>

Next ==
    \/ \E cls \in UserClasses \cup {"RangeValidator"} : DoRegister(cls)
    \/ \E validations \in PipelineConfigs : DoConstruct(validations)
    \/ \E df \in Tables : DoRun(df)
    \/ DoGetSummary

Spec == Init /\ [][Next]_vars

-----------------------------------------------------------------------------
(* Properties of ValidationPipeline.run *)

\* the last call was run and it returned a PipelineResult
RunCompleted == call = "run" /\ ret.kind = "ok"
RunResult == ret.val[1]
RunSpecs == pipeline[1].specs

\* validate of the validator of entry i on the table df
ValidateEntry(specs, i, df) ==
    Validate(specs[i].validator.cls, specs[i].validator.config, df, specs[i].column)

\* C1: on every run that completes, total_validations is the number of spec
\*     entries and the length of results, passed_validations +
\*     failed_validations = total_validations, passed_validations counts the
\*     results with passed = true, and the overall passed is true iff every
\*     result passed (an empty spec gives passed = true and all counts 0).
C1_Aggregation ==
    RunCompleted =>
        /\ RunResult.total_validations = Len(RunSpecs)
        /\ RunResult.total_validations = Len(pipeline[1].config)
        /\ RunResult.total_validations = Len(RunResult.results)
        /\ RunResult.passed_validations + RunResult.failed_validations
                = RunResult.total_validations
        /\ RunResult.passed_validations
                = Cardinality({i \in DOMAIN RunResult.results : RunResult.results[i].passed})
        /\ RunResult.passed <=> \A i \in DOMAIN RunResult.results : RunResult.results[i].passed
        /\ RunSpecs = <<>> =>
                /\ RunResult.passed
                /\ RunResult.total_validations = 0
                /\ RunResult.passed_validations = 0
                /\ RunResult.failed_validations = 0

\* a run of two validators of which the first fails and the second passes
C1_Witness ==
    /\ RunCompleted
    /\ RunResult.total_validations = 2
    /\ ~RunResult.results[1].passed /\ RunResult.results[2].passed
    /\ RunResult.passed_validations = 1 /\ RunResult.failed_validations = 1
    /\ ~RunResult.passed

\* C4: on every run that completes, results[i] is the result of spec entry i:
\*     its validator_name is the name entry i gives for its validator and,
\*     apart from the duration, it is what that validator's validate returns
\*     on the table and the entry's column; the order of the entries is kept
\*     whatever the outcomes are.
C4_SpecOrder ==
    RunCompleted =>
        /\ DOMAIN RunResult.results = DOMAIN pipeline[1].config
        /\ \A i \in DOMAIN RunResult.results :
              /\ RunResult.results[i].validator_name = pipeline[1].config[i].validator[1]
              /\ RunSpecs[i].column = pipeline[1].config[i].column[1]
              /\ Ok([RunResult.results[i] EXCEPT !.duration_seconds = <<>>])
                    = ValidateEntry(RunSpecs, i, arg)

\* a run of two different validators, the first passing and the second
\* failing
C4_Witness ==
    /\ RunCompleted
    /\ Len(RunResult.results) = 2
    /\ pipeline[1].config[1].validator # pipeline[1].config[2].validator
    /\ RunResult.results[1].validator_name = "regex"
    /\ RunResult.results[2].validator_name = "range"
    /\ RunResult.results[1].passed /\ ~RunResult.results[2].passed

\* the entries whose column the table lacks
AbsentColumns(specs, df) == {i \in DOMAIN specs : specs[i].column \notin DOMAIN df.cols}

\* the entries whose validator raises on the table
Faulty(specs, df) ==
    {i \in DOMAIN specs : specs[i].column \in DOMAIN df.cols
                            /\ ValidateEntry(specs, i, df).kind # "ok"}

Least(S) == CHOOSE i \in S : \A j \in S : i <= j

\* C5 as claimed: whenever the column of some spec entry is absent from the
\*     table, run fails with InvalidConfigError, returns no PipelineResult
\*     and leaves last_result as it was.
C5_AlwaysConfigError ==
    [][(call' = "run" /\ AbsentColumns(RunSpecs, arg') # {}) =>
            /\ ret'.kind = "InvalidConfigError"
            /\ ret'.val = <<>>
            /\ last_result' = last_result]_vars

\* C5: whenever the column of some spec entry is absent from the table, run
\*     raises, returns no PipelineResult and leaves last_result as it was;
\*     the error is InvalidConfigError naming the first absent column when
\*     the validator of every earlier entry returned, and otherwise the error
\*     raised by the first earlier validator that raised.
C5_MissingColumn ==
    [][(call' = "run" /\ AbsentColumns(RunSpecs, arg') # {}) =>
            LET first == Least(AbsentColumns(RunSpecs, arg'))
                earlier == {j \in Faulty(RunSpecs, arg') : j < first}
            IN  /\ ret'.kind # "ok"
                /\ ret'.val = <<>>
                /\ last_result' = last_result
                /\ earlier = {} =>
                      /\ ret'.kind = "InvalidConfigError"
                      /\ ret'.msg[1].column = RunSpecs[first].column
                /\ earlier # {} => ret' = ValidateEntry(RunSpecs, Least(earlier), arg')]_vars

\* after a completed run, a run on a table lacking the column of the second
\* entry: the first validator returned, nothing of it is reported and the
\* earlier result is still the last one
C5_Witness ==
    /\ call = "run"
    /\ Len(RunSpecs) = 2
    /\ AbsentColumns(RunSpecs, arg) = {2}
    /\ ValidateEntry(RunSpecs, 1, arg).kind = "ok"
    /\ ret.kind = "InvalidConfigError" /\ ret.val = <<>>
    /\ ret.msg[1].column = "word"
    /\ last_result # <<>>

-----------------------------------------------------------------------------
(* Malformed documents (SpecLoad) *)

\* the file exists and is malformed in one of the ways load_config detects
\* before or while it walks the entries: an unsupported extension, a source
\* that does not parse, a top level that is not an object, no validations
\* key, validations not a list, or a first defective entry that is not an
\* object or lacks column or validator
Malformed ==
    /\ arg.exists
    /\ \/ LowerExt(arg.ext) \notin {".json", ".yaml", ".yml"}
       \/ ~arg.parses
       \/ ~arg.top_is_dict
       \/ ~arg.config.has_validations
       \/ ~arg.config.is_list
       \/ \E i \in DOMAIN DocEntries : EarlierEntriesValid(i) /\ ~HasKeys(DocEntries[i])

\* C11: every failure of load on a malformed document (unparseable source,
\*      top level not an object, no validations key, validations not a
\*      sequence, an entry that is not an object or lacks column or validator,
\*      an extension other than .json/.yaml/.yml) is an InvalidConfigError
\*      and of no other kind.
C11_MalformedIsInvalidConfig ==
    (LoadDone /\ Malformed) => LoadRet.kind = "InvalidConfigError"

-----------------------------------------------------------------------------
(* ValidatorRegistry on its own: from the empty registry of process start, *)
(* classes are registered in any order and the registry is queried.        *)

\* create_validator returning None for every name
CreateValidatorAbsent(reg, name, config) == Ok(<<>>)

\* ValidatorRegistry.create_validator(name, config): None (<<>>) for a name
\* that is not registered, else an instance of the registered class holding
\* config
CreateValidator(reg, name, config) ==
    LET validator_class == GetValidator(reg, name)
    IN  IF validator_class = <<>> THEN Ok(<<>>)
        ELSE Ok(<<[cls |-> validator_class[1], config |-> config]>>)

\* the place of a name in the order of str comparison
NameRank(name) ==
    CASE name = "custom_function" -> 1
      [] name = "not_empty" -> 2
      [] name = "null_check" -> 3
      [] name = "range" -> 4
      [] name = "regex" -> 5
      [] name = "type" -> 6

\* sorted(): each element put before the first greater one
RECURSIVE SortedNames(_)
SortedNames(keys) ==
    IF keys = <<>> THEN <<>>
    ELSE LET rest == SortedNames(Tail(keys))
             before == {i \in DOMAIN rest : NameRank(rest[i]) > NameRank(Head(keys))}
             at == IF before = {} THEN Len(rest) + 1
                   ELSE CHOOSE i \in before : \A j \in before : i <= j
         IN  SubSeq(rest, 1, at - 1) \o <<Head(keys)>> \o SubSeq(rest, at, Len(rest))

\* list_validators without the sort: the keys as the dict holds them
ListValidatorsUnsorted(keys) == Ok(keys)

\* ValidatorRegistry.list_validators(): sorted(cls._validators.keys())
ListValidators(keys) == Ok(SortedNames(keys))

\* the classes registered, the names looked up and the configurations given
RegistryClasses == {"RangeValidator", "NullCheckValidator", "RegexValidator",
                    "UserRange", "NotEmpty"}
RegistryNames == {Name(c) : c \in RegistryClasses} \cup {"nope"}
RegistryConfigs == {Dict({}), Dict({<<"min_value", IntV(0)>>, <<"max_value", IntV(10)>>})}

InitRegistry ==
    /\ registry = <<>>
    /\ key_order = <<>>
    /\ Init!2 /\ Init!3 /\ Init!4 /\ Init!5 /\ Init!6 /\ Init!7

\* ValidatorRegistry.get_validator(name)
DoGetValidator(name) ==
    /\ ret' = Ok(GetValidator(registry, name))
    /\ call' = "get_validator"
    /\ arg' = name
    /\ UNCHANGED <<registry, key_order, pipeline, last_result, loaded>>

\* ValidatorRegistry.create_validator(name, config)
DoCreateValidator(name, config) ==
    /\ ret' = CreateValidator(registry, name, config)
    /\ call' = "create_validator"
    /\ arg' = [name |-> name, config |-> config]
    /\ UNCHANGED <<registry, key_order, pipeline, last_result, loaded>>

\* ValidatorRegistry.list_validators()
DoListValidators ==
    /\ ret' = ListValidators(key_order)
    /\ call' = "list_validators"
    /\ arg' = <<>>
    /\ UNCHANGED <<registry, key_order, pipeline, last_result, loaded>>

NextRegistry ==
    \/ \E cls \in RegistryClasses : DoRegister(cls)
    \/ \E name \in RegistryNames : DoGetValidator(name)
    \/ \E name \in RegistryNames : \E config \in RegistryConfigs : DoCreateValidator(name, config)
    \/ DoListValidators

SpecRegistry == InitRegistry /\ [][NextRegistry]_vars

-----------------------------------------------------------------------------
(* Properties of ValidatorRegistry (SpecRegistry) *)

\* C12: register(cls) raises nothing and returns cls; afterwards the lookup
\*      of the name of cls gives cls, also when the name was in use; the
\*      entry of every other name is as before; no other call changes the
\*      registry, so a lookup gives the class registered last under the name.
C12_LastRegistrationWins ==
    [][/\ call' = "register" =>
            /\ ret' = Ok(arg')
            /\ GetValidator(registry', Name(arg')) = <<arg'>>
            /\ DOMAIN registry' = DOMAIN registry \cup {Name(arg')}
            /\ \A n \in DOMAIN registry \ {Name(arg')} :
                  GetValidator(registry', n) = GetValidator(registry, n)
       /\ call' # "register" => registry' = registry]_vars

\* a user class has been registered under the name of a built-in that was
\* registered before it and before another class
C12_Witness ==
    /\ call = "register" /\ arg = "UserRange" /\ ret = Ok("UserRange")
    /\ key_order = <<"range", "regex">>
    /\ GetValidator(registry, "range") = <<"UserRange">>
    /\ GetValidator(registry, "regex") = <<"RegexValidator">>

\* C13: create_validator(name, config) never raises and never changes the
\*      registry; it returns None iff name is not registered, and otherwise
\*      an instance of the class registered under name whose configuration
\*      is the given config.
C13_CreateValidator ==
    [][call' = "create_validator" =>
            /\ registry' = registry /\ key_order' = key_order
            /\ ret'.kind = "ok"
            /\ ret'.val[1] = <<>> <=> arg'.name \notin DOMAIN registry
            /\ arg'.name \in DOMAIN registry =>
                  ret'.val[1] = <<[cls |-> registry[arg'.name], config |-> arg'.config]>>]_vars

\* an instance of the class a user registered under the name range, created
\* with a configuration that is not empty
C13_Witness ==
    /\ call = "create_validator" /\ arg.name = "range"
    /\ GetValidator(registry, "range") = <<"UserRange">>
    /\ arg.config # Dict({})
    /\ ret = Ok(<<[cls |-> "UserRange", config |-> arg.config]>>)

\* the names are in strictly ascending order
Ascending(names) ==
    \A i \in DOMAIN names : \A j \in DOMAIN names :
        i < j => NameRank(names[i]) < NameRank(names[j])

\* C14: list_validators returns exactly the names registered so far, each
\*      once, in ascending order, whatever the order of registration was.
C14_ListValidators ==
    call = "list_validators" =>
        /\ ret.kind = "ok"
        /\ {ret.val[1][i] : i \in DOMAIN ret.val[1]} = DOMAIN registry
        /\ Len(ret.val[1]) = Cardinality(DOMAIN registry)
        /\ Ascending(ret.val[1])

\* the list after three names were registered in descending order, one of
\* them twice
C14_Witness ==
    /\ call = "list_validators"
    /\ key_order = <<"regex", "range", "not_empty">>
    /\ GetValidator(registry, "range") = <<"UserRange">>
    /\ ret = Ok(<<"not_empty", "range", "regex">>)

-----------------------------------------------------------------------------
(* Properties of last_result and get_summary (Spec) *)

\* C15: get_summary raises RuntimeError exactly when the pipeline holds no
\*      result; a new pipeline holds none, a run that raises leaves the
\*      pipeline without one if it had none, a run that completes gives it
\*      one, and nothing takes a result away: so get_summary raises
\*      RuntimeError as long as no run of the instance has completed, also
\*      after runs that raised, and never afterwards.
C15_SummaryNeedsRun ==
    [][/\ call' = "construct" => last_result' = <<>>
       /\ call' = "get_summary" =>
            /\ ret'.kind = "RuntimeError" <=> last_result = <<>>
            /\ last_result' = last_result
       /\ (call' = "run" /\ ret'.kind # "ok") => last_result' = last_result
       /\ (call' = "run" /\ ret'.kind = "ok") => last_result' # <<>>
       /\ (call' = "register" /\ pipeline # <<>>) => last_result' = last_result
       /\ (call = "run" /\ ret.kind # "ok" /\ last_result = <<>> /\ call' = "get_summary")
            => ret'.kind = "RuntimeError"]_vars

\* get_summary has raised RuntimeError on a pipeline of two validators that
\* holds no result
C15_Witness ==
    /\ call = "get_summary" /\ ret.kind = "RuntimeError"
    /\ pipeline # <<>> /\ Len(RunSpecs) = 2
    /\ last_result = <<>>

\* C16: last_result is the PipelineResult the most recent completed run
\*      returned: a run that completes stores the result it returns in the
\*      place of the earlier one, no other step changes last_result, and
\*      get_summary reports the overall status and the counts of the result
\*      held.
C16_LastResult ==
    [][/\ (call' = "run" /\ ret'.kind = "ok") => last_result' = ret'.val
       /\ (call' = "run" /\ ret'.kind # "ok") => last_result' = last_result
       /\ (call' \in {"get_summary", "register"} /\ pipeline # <<>>)
            => last_result' = last_result
       /\ (call' = "get_summary" /\ last_result # <<>>) =>
            /\ ret'.kind = "ok"
            /\ ret'.val[1].overall = IF last_result[1].passed THEN "PASSED" ELSE "FAILED"
            /\ ret'.val[1].passed = last_result[1].passed_validations
            /\ ret'.val[1].failed = last_result[1].failed_validations
            /\ ret'.val[1].total = last_result[1].total_validations]_vars

\* a summary of a result with one passed and one failed validation
C16_Witness ==
    /\ call = "get_summary" /\ ret.kind = "ok"
    /\ last_result # <<>>
    /\ ret.val[1].overall = "FAILED"
    /\ ret.val[1].passed = 1 /\ ret.val[1].failed = 1 /\ ret.val[1].total = 2
    /\ last_result[1].passed_validations = 1 /\ last_result[1].failed_validations = 1

-----------------------------------------------------------------------------
(* Properties of NullCheckValidator (SpecValidate) *)

NullRows == {i \in DOMAIN ValidateColumn : IsNa(ValidateColumn[i])}
AllowNull == GetOr(arg.config, "allow_null", BoolV(FALSE)) = BoolV(TRUE)
MaxNullPercent == Get(arg.config, "max_null_percent")
\* nulls / total * 100 <= max_null_percent, the percentage of an empty column
\* being 0
WithinLimit ==
    IF Len(ValidateColumn) = 0 THEN 0 <= Num(MaxNullPercent)
    ELSE Cardinality(NullRows) * 1000 <= Num(MaxNullPercent) * Len(ValidateColumn)

\* C18: with allow_null = true and max_null_percent set, a column whose
\*      percentage of nulls does not exceed max_null_percent passes.
C18_WithinLimitPasses ==
    (Validated("NullCheckValidator") /\ AllowNull /\ MaxNullPercent # NullV /\ WithinLimit)
        => ValidateResult.passed

\* C19: null_check records no failure for a non-null value; with allow_null
\*      false the failing rows are exactly the null rows, whatever
\*      max_null_percent is; with allow_null true and max_null_percent unset
\*      every column passes.
C19_OnlyNullsFail ==
    Validated("NullCheckValidator") =>
        /\ \A i \in DOMAIN ValidateColumn : RowFailed(i) => i \in NullRows
        /\ \A d \in DOMAIN ValidateResult.error_details :
              \E i \in NullRows : ValidateResult.error_details[d].row = arg.df.index[i]
        /\ ~AllowNull =>
              /\ \A i \in NullRows : RowFailed(i)
              /\ ValidateResult.failed_records = Cardinality(NullRows)
        /\ (AllowNull /\ MaxNullPercent = NullV) =>
              /\ ValidateResult.passed
              /\ ValidateResult.error_details = <<>>

\* nulls allowed without a limit: a column of a null and an empty text passes
C19_Witness ==
    /\ Validated("NullCheckValidator")
    /\ arg.config = Dict({<<"allow_null", BoolV(TRUE)>>})
    /\ ValidateColumn = <<NullV, StrV("")>>
    /\ ValidateResult.passed /\ ValidateResult.failed_records = 0

-----------------------------------------------------------------------------
(* Properties of RegexValidator (SpecValidate) *)

UpperText(cs) == [i \in DOMAIN cs |-> UpperChar(cs[i])]
RegexPattern == Stringify(Get(arg.config, "pattern"))
CaseSensitive == GetOr(arg.config, "case_sensitive", BoolV(TRUE)) = BoolV(TRUE)

\* C20: the regex validator fails a row iff the value is null or the pattern
\*      has no match of str(value) that starts at position 0; with
\*      case_sensitive false a value passes whenever it, its lower-case or
\*      its upper-case variant passes case-sensitively; with the pattern
\*      ^[a-z]+$ and case_sensitive true the empty string and every string
\*      with an upper-case letter fail.
C20_RegexRule ==
    Validated("RegexValidator") =>
        LET regex == Compile(RegexPattern, ~CaseSensitive)[1]
            sensitive == Compile(RegexPattern, FALSE)[1]
        IN  \A i \in DOMAIN ValidateColumn :
                LET v == ValidateColumn[i]
                    text == Stringify(v)
                IN  /\ RowFailed(i) <=> (IsNa(v) \/ ~MatchesAt(regex, text, 1))
                    /\ (~CaseSensitive /\ ~IsNa(v)
                          /\ \E variant \in {text, Lower(text), UpperText(text)} :
                                MatchesAt(sensitive, variant, 1))
                        => ~RowFailed(i)
                    /\ (CaseSensitive /\ Get(arg.config, "pattern") = StrV("^[a-z]+$")
                          /\ (text = <<>> \/ \E j \in DOMAIN text : IsUpper(text[j])))
                        => RowFailed(i)

\* the unanchored pattern [a-z]+ on Xyz and abc: Xyz fails although yz, a
\* part of it, matches
C20_Witness ==
    /\ Validated("RegexValidator")
    /\ arg.config = Dict({<<"pattern", StrV("[a-z]+")>>})
    /\ ValidateColumn = <<StrV("Xyz"), StrV("abc")>>
    /\ RowFailed(1) /\ ~RowFailed(2)
    /\ MatchesAt(Compile(RegexPattern, FALSE)[1], Stringify(StrV("Xyz")), 2)

-----------------------------------------------------------------------------
(* Properties of TypeValidator (SpecValidate) *)

ExpectedType == Lower(Stringify(Get(arg.config, "expected_type")))
Strict == GetOr(arg.config, "strict", BoolV(FALSE)) = BoolV(TRUE)
\* the native kind a strict check of the expected type asks for
ExactKind ==
    CASE ExpectedType = Chars("int") -> "int"
      [] ExpectedType = Chars("float") -> "float"
      [] ExpectedType = Chars("string") -> "str"
      [] ExpectedType = Chars("datetime") -> "datetime"
      [] OTHER -> "bool"

\* C21: in strict mode the type validator passes a non-null value iff its
\*      native kind is exactly the expected kind (a boolean fails a strict
\*      int check, an integer fails a strict float check, only strings pass
\*      a strict string check); a null fails in both modes.
C21_StrictExactKind ==
    Validated("TypeValidator") =>
        \A i \in DOMAIN ValidateColumn :
            /\ IsNa(ValidateColumn[i]) => RowFailed(i)
            /\ (Strict /\ ~IsNa(ValidateColumn[i])) =>
                  (~RowFailed(i) <=> ValidateColumn[i].k = ExactKind)

-----------------------------------------------------------------------------
(* Properties of CustomFunctionValidator (SpecValidate) *)

ValidationFunc == Get(arg.config, "validation_func")
ErrorMessage == Get(arg.config, "error_message")
\* the reason recorded for row i
ReasonOf(i) ==
    ValidateResult.error_details[
        CHOOSE d \in DOMAIN ValidateResult.error_details :
            ValidateResult.error_details[d].row = arg.df.index[i]].reason
\* validate was called on a custom_function instance that has a callable
CustomCalled ==
    /\ call = "validate" /\ ret # <<>> /\ arg.cls = "CustomFunctionValidator"
    /\ ValidationFunc # NullV

\* C22 as claimed: a row fails iff the callable raises (reason: the
\*      exception text) or returns a falsy value (reason: error_message, or
\*      the default text when error_message is unset); no exception of the
\*      callable aborts validate.
C22_ReasonIsErrorMessage ==
    CustomCalled =>
        /\ ret[1].kind = "ok"
        /\ \A i \in DOMAIN ValidateColumn :
              LET r == CallFunc(ValidationFunc, ValidateColumn[i])
              IN  /\ RowFailed(i) <=> (r.raised \/ ~Truthy(r.result))
                  /\ r.raised => ReasonOf(i).t = "Exception in validation function"
                  /\ (~r.raised /\ ~Truthy(r.result)) =>
                        ReasonOf(i) = IF ErrorMessage # NullV
                                      THEN Reason("error_message", ErrorMessage)
                                      ELSE Reason("Custom validation failed", NullV)

\* C22: a row fails iff the callable raises (reason: the exception text) or
\*      returns a falsy value (reason: error_message when it is set and not
\*      empty, else the default text); a truthy return passes; no exception
\*      of the callable aborts validate, every row is classified.
C22_CustomRule ==
    CustomCalled =>
        /\ ret[1].kind = "ok"
        /\ \A i \in DOMAIN ValidateColumn :
              LET r == CallFunc(ValidationFunc, ValidateColumn[i])
              IN  /\ RowFailed(i) <=> (r.raised \/ ~Truthy(r.result))
                  /\ r.raised => ReasonOf(i).t = "Exception in validation function"
                  /\ (~r.raised /\ ~Truthy(r.result)) =>
                        ReasonOf(i) = IF ErrorMessage # NullV /\ ErrorMessage # StrV("")
                                      THEN Reason("error_message", ErrorMessage)
                                      ELSE Reason("Custom validation failed", NullV)

\* int(v) raises on the first row; the second row is still classified, and
\* fails with the configured message because int(v) is 0
C22_Witness ==
    /\ CustomCalled /\ ret[1].kind = "ok"
    /\ ValidationFunc = CallableV("int_of")
    /\ ErrorMessage = StrV("abc")
    /\ Len(ValidateColumn) = 2
    /\ CallFunc(ValidationFunc, ValidateColumn[1]).raised
    /\ ~CallFunc(ValidationFunc, ValidateColumn[2]).raised
    /\ RowFailed(1) /\ RowFailed(2)
    /\ ReasonOf(2) = Reason("error_message", StrV("abc"))

-----------------------------------------------------------------------------
(* Validator faults inside a pipeline (Spec) *)

\* the first entry from entry i on whose column is absent or whose validator
\* raises; Len(specs) + 1 when there is none
RECURSIVE FirstStopFrom(_, _, _)
FirstStopFrom(specs, df, i) ==
    IF i > Len(specs) THEN i
    ELSE IF specs[i].column \notin DOMAIN df.cols THEN i
    ELSE IF ValidateEntry(specs, i, df).kind # "ok" THEN i
    ELSE FirstStopFrom(specs, df, i + 1)
FirstStop(specs, df) == FirstStopFrom(specs, df, 1)

\* C23: a fault inside a validator (an invalid pattern, an unsupported
\*      expected_type) is raised by validate as an error, not reported as
\*      failing rows; when run reaches such a validator it propagates that
\*      error, returns no PipelineResult and leaves last_result as it was.
C23_FaultAbortsRun ==
    /\ [](call = "run" =>
            LET k == FirstStop(RunSpecs, arg)
            IN  (k <= Len(RunSpecs) /\ RunSpecs[k].column \in DOMAIN arg.cols) =>
                    /\ ret = ValidateEntry(RunSpecs, k, arg)
                    /\ ret.kind = "ValueError"
                    /\ ret.val = <<>>)
    /\ [][(call' = "run" /\ ret'.kind # "ok") =>
                (last_result' = last_result /\ pipeline' = pipeline)]_vars

\* a run whose first validator returned and whose second one has a pattern
\* that does not compile
C23_Witness ==
    /\ call = "run"
    /\ Len(RunSpecs) = 2
    /\ AbsentColumns(RunSpecs, arg) = {}
    /\ ValidateEntry(RunSpecs, 1, arg).kind = "ok"
    /\ RunSpecs[2].validator.cls = "RegexValidator"
    /\ Faulty(RunSpecs, arg) = {2}
    /\ ret.kind = "ValueError" /\ ret.val = <<>>
    /\ last_result = <<>>

-----------------------------------------------------------------------------
(* Construction of a pipeline (Spec) *)

ConstructCalled == call = "construct"
\* the entries that are no mapping or lack column or validator
IllFormed(validations) ==
    {i \in DOMAIN validations :
        ~validations[i].is_dict \/ validations[i].column = <<>> \/ validations[i].validator = <<>>}
\* the entries naming a validator the registry does not hold
Unresolved(reg, validations) ==
    {i \in DOMAIN validations :
        /\ validations[i].validator # <<>>
        /\ GetValidator(reg, validations[i].validator[1]) = <<>>}

\* C24 as claimed: if any entry names an unregistered validator,
\*      construction fails with UnknownValidatorError and no pipeline exists.
C24_AlwaysUnknownValidator ==
    (ConstructCalled /\ Unresolved(registry, arg) # {}) =>
        /\ ret.kind = "UnknownValidatorError"
        /\ pipeline = <<>>

\* C24: construction stops at the first entry, in entry order, that is ill
\*      formed (InvalidConfigError) or names an unregistered validator
\*      (UnknownValidatorError), and then no pipeline exists; if every entry
\*      is well formed and resolves, the pipeline holds one validator
\*      instance per entry, in entry order, of the class registered under
\*      the entry's name and configured with the entry's params.
C24_Construction ==
    ConstructCalled =>
        LET defective == IllFormed(arg) \cup Unresolved(registry, arg)
        IN  /\ defective # {} =>
                 /\ ret.val = <<>>
                 /\ pipeline = <<>>
                 /\ ret.msg[1].idx = Least(defective) - 1
                 /\ ret.kind = IF Least(defective) \in IllFormed(arg)
                               THEN "InvalidConfigError" ELSE "UnknownValidatorError"
            /\ defective = {} =>
                 /\ ret.kind = "ok"
                 /\ pipeline # <<>>
                 /\ ret.val[1] = pipeline[1].specs
                 /\ DOMAIN pipeline[1].specs = DOMAIN arg
                 /\ \A i \in DOMAIN arg :
                       /\ pipeline[1].specs[i].column = arg[i].column[1]
                       /\ <<pipeline[1].specs[i].validator.cls>>
                             = GetValidator(registry, arg[i].validator[1])
                       /\ pipeline[1].specs[i].validator.config
                             = IF arg[i].params = <<>> THEN Dict({}) ELSE arg[i].params[1]

\* a configuration whose first entry resolves and whose second entry names a
\* validator nobody registered: no pipeline
C24_Witness ==
    /\ ConstructCalled
    /\ Len(arg) = 2
    /\ IllFormed(arg) = {}
    /\ Unresolved(registry, arg) = {2}
    /\ ret.kind = "UnknownValidatorError"
    /\ ret.msg[1].idx = 1
    /\ pipeline = <<>>

-----------------------------------------------------------------------------
(* The failure details of the built-in validators (SpecValidate) *)

\* validate has returned a ValidationResult
ValidateReturned == call = "validate" /\ ret # <<>> /\ ret[1].kind = "ok"
\* the position in the column of the row an entry of error_details names
PosOf(d) == CHOOSE i \in DOMAIN arg.df.index : arg.df.index[i] = ValidateResult.error_details[d].row
\* row i breaks the rule of the validator, by the rule alone
BreaksRule(i) ==
    CASE arg.cls = "RangeValidator" -> RangeRow(arg.config, ValidateColumn[i]) # Pass
      [] arg.cls = "RegexValidator" ->
            RegexRow(Compile(RegexPattern, ~CaseSensitive)[1], ValidateColumn[i]) # Pass
      [] arg.cls = "TypeValidator" -> TypeRow(ExpectedType, Strict, ValidateColumn[i]) # Pass
      [] arg.cls = "CustomFunctionValidator" ->
            CustomRow(ValidationFunc, ErrorMessage, ValidateColumn[i]) # Pass
      [] OTHER -> RowFailed(i) /\ IsNa(ValidateColumn[i])
\* row i is below the lower bound and above the upper bound of a range check
BreaksBothBounds(i) ==
    /\ arg.cls = "RangeValidator"
    /\ Get(arg.config, "min_value") # NullV /\ Get(arg.config, "max_value") # NullV
    /\ ToFloat(ValidateColumn[i]) # <<>>
    /\ ToFloat(ValidateColumn[i])[1] < Num(Get(arg.config, "min_value"))
    /\ ToFloat(ValidateColumn[i])[1] > Num(Get(arg.config, "max_value"))

\* C25: for every built-in validator error_details has exactly one entry for
\*      each failing row and none for a passing row (a row beyond both
\*      bounds of a range with min > max has one entry, with the reason of
\*      the lower bound); the entries come in the order the rows are
\*      traversed and the row field of an entry is the index label of its
\*      row.
C25_ErrorDetails ==
    ValidateReturned =>
        /\ \A d \in DOMAIN ValidateResult.error_details :
              ValidateResult.error_details[d].row \in {arg.df.index[i] : i \in DOMAIN arg.df.index}
        /\ \A d, e \in DOMAIN ValidateResult.error_details : d < e => PosOf(d) < PosOf(e)
        /\ \A i \in DOMAIN ValidateColumn :
              /\ RowFailed(i) <=> BreaksRule(i)
              /\ Cardinality({d \in DOMAIN ValidateResult.error_details :
                                ValidateResult.error_details[d].row = arg.df.index[i]})
                    = IF BreaksRule(i) THEN 1 ELSE 0
              /\ BreaksBothBounds(i) =>
                    ReasonOf(i).t \in {"Value below minimum", "Value not greater than minimum"}

\* a column with labels other than the positions whose two rows are both
\* below the minimum and above the maximum of a range check
C25_Witness ==
    /\ ValidateReturned
    /\ Len(ValidateColumn) = 2
    /\ arg.df.index # <<0, 1>>
    /\ BreaksBothBounds(1) /\ BreaksBothBounds(2)
    /\ Len(ValidateResult.error_details) = 2
    /\ ValidateResult.error_details[1].row = arg.df.index[1]
    /\ ValidateResult.error_details[2].row = arg.df.index[2]
    /\ ReasonOf(1).t = "Value below minimum"

-----------------------------------------------------------------------------
(* What the operations of a pipeline leave alone (Spec) *)

-----------------------------------------------------------------------------
(* Required parameters after a load (SpecLoad) *)

\* C27: whenever load succeeds, every parameter that is required and has no
\*      default (regex.pattern, type.expected_type,
\*      custom_function.validation_func) holds a non-null value in the
\*      normalised params of its entry, also when the document gives the key
\*      the value null.
C27_RequiredNonNull ==
    (LoadDone /\ LoadRet.kind = "ok") =>
        \A i \in DOMAIN LoadRet.val[1] :
            \A q \in RequiredNoDefault \cap DOMAIN LoadRet.val[1][i].params :
                LoadRet.val[1][i].params[q] # NullV

-----------------------------------------------------------------------------
(* The calls run makes before a missing column stops it (Spec) *)

\* C28: when run fails because the column of entry k is missing, the
\*      validators of the entries 1..k-1 have each been called once, in
\*      entry order, and the validator of no entry from k on has been
\*      called: the column of an entry is looked for just before its
\*      validator is called.
C28_ColumnCheckedPerEntry ==
    (call = "run" /\ ret.kind = "InvalidConfigError") =>
        LET k == CHOOSE i \in DOMAIN RunSpecs :
                    /\ RunSpecs[i].column = ret.msg[1].column
                    /\ RunSpecs[i].column \notin DOMAIN arg.cols
                    /\ \A j \in 1..(i - 1) : RunSpecs[j].column \in DOMAIN arg.cols
        IN  /\ k = Least(AbsentColumns(RunSpecs, arg))
            /\ RunCalls(RunSpecs, arg, 1, <<>>) = [i \in 1..(k - 1) |-> i]
            /\ \A j \in 1..(k - 1) : ValidateEntry(RunSpecs, j, arg).kind = "ok"

\* a run stopped by the missing column of its second entry after the
\* validator of the first entry was called
C28_Witness ==
    /\ call = "run" /\ ret.kind = "InvalidConfigError"
    /\ Len(RunSpecs) = 2
    /\ RunSpecs[1].column \in DOMAIN arg.cols
    /\ RunSpecs[2].column \notin DOMAIN arg.cols
    /\ RunCalls(RunSpecs, arg, 1, <<>>) = <<1>>

-----------------------------------------------------------------------------
(* From a loaded configuration to a pipeline: load_config(path), any       *)
(* registrations, then ValidationPipeline(config) on what load returned.    *)

\* PipelineConfig.validations of the loaded configuration: the normalised
\* entries, each a mapping with column, validator and params
LoadedValidations ==
    [i \in DOMAIN loaded[1] |->
        Entry(<<loaded[1][i].column>>, <<loaded[1][i].validator>>, <<loaded[1][i].params>>)]

\* ValidationPipeline(load_config(path))
DoConstructLoaded ==
    /\ loaded # <<>>
    /\ DoConstruct(LoadedValidations)

NextLoadConstruct ==
    \/ DoLoad
    \/ \E cls \in UserClasses \cup {"RangeValidator"} : DoRegister(cls)
    \/ DoConstructLoaded

SpecLoadConstruct == InitLoad /\ [][NextLoadConstruct]_vars

\* C29: the registry only grows: a name register has stored is found by
\*      every later lookup; so the configuration a successful load returned
\*      can be made a pipeline without an unknown-validator error, whatever
\*      is registered between the load and the construction.
C29_RegistryGrows ==
    [][/\ \A name \in DOMAIN registry : GetValidator(registry', name) # <<>>
       /\ loaded' # <<>> =>
             /\ \A i \in DOMAIN loaded'[1] : GetValidator(registry', loaded'[1][i].validator) # <<>>
       /\ (call' = "construct") =>
             /\ ret'.kind = "ok"
             /\ pipeline' # <<>>
             /\ Len(pipeline'[1].specs) = Len(loaded[1])]_vars

\* a pipeline made of a loaded configuration with a range entry after the
\* name range was registered anew
C29_Witness ==
    /\ call = "construct" /\ ret.kind = "ok"
    /\ loaded # <<>> /\ Len(loaded[1]) = 2
    /\ loaded[1][1].validator = "range"
    /\ pipeline # <<>>
    /\ pipeline[1].specs[1].validator.cls = "UserRange"
    /\ "not_empty" \in DOMAIN registry

-----------------------------------------------------------------------------
(* The validators of a pipeline are bound when it is made (Spec) *)

\* C30: a pipeline binds its validators at construction: each is an instance
\*      of the class registered under the entry's name at that moment;
\*      registering another class under the name afterwards leaves the
\*      pipeline as it is, and its later runs execute the classes bound at
\*      construction, not the ones the registry holds when they run.
C30_BoundAtConstruction ==
    /\ [][/\ (call' = "construct" /\ ret'.kind = "ok") =>
                \A i \in DOMAIN pipeline'[1].specs :
                    <<pipeline'[1].specs[i].validator.cls>>
                        = GetValidator(registry, pipeline'[1].config[i].validator[1])
          /\ pipeline # <<>> => pipeline' = pipeline]_vars
    /\ [](RunCompleted =>
            \A i \in DOMAIN RunResult.results :
                Ok([RunResult.results[i] EXCEPT !.duration_seconds = <<>>])
                    = ValidateEntry(RunSpecs, i, arg))

\* a run of a pipeline made with the built-in range validator after a user's
\* class was registered under the name range: the result is the built-in's,
\* which differs from what the user's class reports on the same table
C30_Witness ==
    /\ RunCompleted
    /\ Len(RunSpecs) = 1
    /\ RunSpecs[1].validator.cls = "RangeValidator"
    /\ GetValidator(registry, "range") = <<"UserRange">>
    /\ Ok([RunResult.results[1] EXCEPT !.duration_seconds = <<>>])
          = RangeValidate(RunSpecs[1].validator.config, arg, RunSpecs[1].column)
    /\ Ok([RunResult.results[1] EXCEPT !.duration_seconds = <<>>])
          # UserRangeValidate(RunSpecs[1].validator.config, arg, RunSpecs[1].column)

=============================================================================
